---- MODULE Spec2Model ----
(***************************************************************************)
(* MoveSmart-AI (src/js/app.js, second MoveSmartAI class, lines 984-2508): *)
(* the countdown-timer subsystem and the email-reminder subsystem.         *)
(*                                                                         *)
(* Spec          the timer subsystem: this.timers (a Map in insertion      *)
(*               order), the timer objects, the live setInterval handles,  *)
(*               the two timer modals. The text written to .timer-time is  *)
(*               never read back by the code and is left out.              *)
(* SpecReminder  the reminder form: validation, preferences, the stored    *)
(*               array, the confirmation send and the deferred send.       *)
(* SpecReminderLive  SpecReminder with the timeouts' callbacks run fairly. *)
(* SpecSends     SpecReminder with the test-email button.                  *)
(* SpecStartup   SpecReminder with page loads in which a step throws.      *)
(* SpecCards     the timers started from cards: getTimerDuration.          *)
(* SpecPrefs     the preferences saved by a submission and loaded again.   *)
(* SpecConfig    SpecReminder under each fallback section of config.js.    *)
(* SpecTabs      SpecReminder with a second instance of the page.          *)
(* SpecCalendar  the success view and the calendar file it downloads.      *)
(* SpecOverlap   one session of the page with overlapping submissions.     *)
(* SpecOne       SpecReminder with the tally of submissions and sends.     *)
(* SpecCorrupt   SpecReminder with the stored array overwritten by text    *)
(*               that is no JSON array.                                    *)
(* SpecEmail     the submit handler on every short text in the email field. *)
(* SpecNav       the page sections: showSection and the events calling it. *)
(***************************************************************************)
EXTENDS Integers, Sequences, FiniteSets, Bags, TLC

\* ------------------------------------------------------------------ bounds
\* Length of the texts typed into the email field, where all texts are tried.
MaxEmailLen == 6
\* Number of start actions (startTimer / startChallengeTimer) in a run.
MaxStarts == 2
\* Durations handed to startTimer / startChallengeTimer: 0..MaxDuration seconds.
MaxDuration == 2
\* How far below zero a resumed, completed timer is followed.
MaxOverrun == 1

\* Reminder-form submissions (accepted or rejected) in a run.
MaxSubmits == 2
\* The clock runs over 0..MaxNow (one unit is one minute, 60000 ms).
MaxNow == 3

\* timer.interval = null (app.js:1412, 1502)
Null == 0

\* Number.NaN, what parseInt returns for a string that starts with no digit.
\* No number the model reads is negative, so -1 is free for it.
NaN == -1

VARIABLES
    timers,            \* this.timers: the ids of the Map's entries, in insertion order
    heap,              \* the timer objects, by id
    intervals,         \* the live setInterval registrations: [h, t, cb]
    nextId,            \* number of timers created so far (ids are Date.now(), increasing)
    timerModalActive,      \* this.timerModal.classList.contains('active')
    challengeModalActive,  \* this.challengeTimerModal.classList.contains('active')
    shown,             \* per kind, the timer last handed to show*TimerModal
    ticks,             \* per timer: interval callbacks run since creation or last reset
    completions,       \* per timer: completion notifications since creation or last reset
    op                 \* the handler that ran last

VARIABLES
    now,               \* Date.now(), in minutes
    emailjsLoaded,     \* typeof emailjs !== 'undefined' && window.EMAIL_CONFIG
    permission,        \* Notification.permission
    storedReminders,   \* localStorage 'movesmartai_scheduled_reminders' (the parsed array)
    prefs,             \* localStorage 'movesmartai_reminder_prefs': <<>> or <<record>>
    currentReminder,   \* this.currentReminder: <<>> or <<record>>
    jobs,              \* sends in flight (a bag), each with the code that awaits it
    armed,             \* pending setTimeout callbacks of the deferred sends (a bag)
    alerted,           \* the alert() dialog the last handler showed, or "none"
    notified,          \* what the last handler did about a browser notification
    formView,          \* which of reminder-form / reminder-success is displayed
    reminderModalActive,   \* this.reminderModal.classList.contains('active')
    submits,           \* submit events so far
    startup,           \* how the last page load went: the step that threw (or
                       \* "none"), whether the error announcement was made,
                       \* whether the exception left the constructor, and
                       \* whether the reminder listeners were attached
    fallback,          \* window.EMAIL_CONFIG.fallback, as config.js sets it
    emailInput,        \* what the user has typed for the email field of the form
    prefilled,         \* the values of the five remembered form fields after
                       \* the last page load
    ics,               \* the calendar file downloaded last: <<>> or <<lines>>
    otherArmed,        \* pending setTimeout callbacks of a second instance of
                       \* the page, open over the same local storage
    storedText,        \* the string under the scheduled-reminders key: ArrayText
                       \* when it is the JSON of storedReminders, else the
                       \* string itself
    display,           \* style.display of each element of this.sections
    activeSection,     \* this.activeSection
    tally              \* accepted submissions and reminder sends started so
                       \* far, per stored record (bags); future counts the
                       \* accepted submissions whose reminder instant was
                       \* ahead when they were submitted

reminderVars == <<now, emailjsLoaded, permission, storedReminders, storedText, prefs, currentReminder,
                  jobs, armed, alerted, notified, formView, reminderModalActive, submits,
                  startup, fallback, emailInput, prefilled, ics, otherArmed, tally>>

navVars == <<display, activeSection>>

timerVars == <<timers, heap, intervals, nextId, timerModalActive, challengeModalActive,
               shown, ticks, completions, op>>

\* The timer state a handler of the reminder subsystem leaves alone.
timerState == <<timers, heap, intervals, nextId, timerModalActive, challengeModalActive,
                shown, ticks, completions>>

\* What a handler of the reminder form leaves alone as well: the outcome of
\* the page load, the configuration, the fields as they were loaded, the
\* downloaded file, the other instance of the page.
formFrame == <<timerState, navVars, startup, fallback, emailInput, prefilled, ics, otherArmed, tally>>

\* ------------------------------------------------------------ pure helpers
\* The keys of this.sections (1053-1058).
Sections == {"home", "workouts", "stretches", "tips"}

\* A name that is no key of this.sections.
NoSection == "chat"

\* The sections after cacheElements (1064-1070): every section but home is
\* hidden, home is shown as the page's markup has it.
LoadedDisplay == [s \in Sections |-> IF s = "home" THEN "block" ELSE "none"]

Durations == 0..MaxDuration

Range(s) == {s[i] : i \in 1..Len(s)}

\* Map.prototype.delete: the entry leaves, the order of the others stays.
RECURSIVE MapDelete(_, _)
MapDelete(s, id) ==
    IF s = <<>> THEN <<>>
    ELSE IF Head(s) = id THEN MapDelete(Tail(s), id)
    ELSE <<Head(s)>> \o MapDelete(Tail(s), id)

\* A Map that holds no more than the entry set last.
MapSet_Evicts(s, id) == <<id>>

\* Map.prototype.set, the keys only: a new key goes to the end, a key the Map
\* holds keeps its place.
MapSet(s, id) == IF id \in Range(s) THEN s ELSE Append(s, id)

\* A store is the part of the state the timer methods work on.
Store == [heap |-> heap, intervals |-> intervals, completions |-> completions,
          ticks |-> ticks]

\* setInterval returns a handle no live registration carries.
FreshHandle(st) ==
    CHOOSE h \in 1..(MaxStarts + 1) :
        /\ \A r \in st.intervals : r.h # h
        /\ \A k \in 1..(MaxStarts + 1) :
              (k < h) => (\E r \in st.intervals : r.h = k)

\* clearInterval(handle)
ClearInterval(ivs, handle) == {r \in ivs : r.h # handle}

\* ----------------------------------------------------------- timer methods
\* resumeTimer (1477-1491) and resumeChallengeTimer (1650-1664) differ in the
\* callback they register (cb).
ResumeWith(st, t, cb) ==
    IF st.heap[t].isRunning THEN st
    ELSE LET h == FreshHandle(st) IN
         [st EXCEPT !.heap[t].isRunning = TRUE,
                    !.heap[t].interval = h,
                    !.intervals = @ \cup {[h |-> h, t |-> t, cb |-> cb]}]

resumeTimer(st, t) == ResumeWith(st, t, "workout")

\* resumeChallengeTimer without the test of isRunning.
resumeChallengeTimer_NoGuard(st, t) ==
    LET h == FreshHandle(st) IN
    [st EXCEPT !.heap[t].isRunning = TRUE,
               !.heap[t].interval = h,
               !.intervals = @ \cup {[h |-> h, t |-> t, cb |-> "challenge"]}]

resumeChallengeTimer(st, t) == ResumeWith(st, t, "challenge")

\* pauseTimer that drops the flag and forgets clearInterval.
pauseTimer_KeepsInterval(st, t) ==
    IF ~st.heap[t].isRunning THEN st
    ELSE [st EXCEPT !.heap[t].isRunning = FALSE]

pauseTimer(st, t) ==
    IF ~st.heap[t].isRunning THEN st
    ELSE LET a == [st EXCEPT !.heap[t].isRunning = FALSE] IN
         IF st.heap[t].interval # Null
         THEN [a EXCEPT !.intervals = ClearInterval(@, st.heap[t].interval),
                        !.heap[t].interval = Null]
         ELSE a

pauseChallengeTimer(st, t) ==
    IF ~st.heap[t].isRunning THEN st
    ELSE LET a == [st EXCEPT !.heap[t].isRunning = FALSE] IN
         IF st.heap[t].interval # Null
         THEN [a EXCEPT !.intervals = ClearInterval(@, st.heap[t].interval),
                        !.heap[t].interval = Null]
         ELSE a

\* resetTimer without its pauseTimer call.
resetTimer_NoPause(st, t) ==
    [st EXCEPT !.heap[t].remaining = st.heap[t].duration,
               !.ticks[t] = 0,
               !.completions[t] = 0]

resetTimer(st, t) ==
    LET a == pauseTimer(st, t) IN
    [a EXCEPT !.heap[t].remaining = a.heap[t].duration,
              !.ticks[t] = 0,
              !.completions[t] = 0]

resetChallengeTimer(st, t) ==
    LET a == pauseChallengeTimer(st, t) IN
    [a EXCEPT !.heap[t].remaining = a.heap[t].duration,
              !.ticks[t] = 0,
              !.completions[t] = 0]

\* completeTimer without its pauseTimer call.
completeTimer_NoPause(st, t) ==
    [st EXCEPT !.completions[t] = @ + 1]

\* completeTimer + showTimerCompletion: pause, then the completion alert.
completeTimer(st, t) ==
    LET a == pauseTimer(st, t) IN
    [a EXCEPT !.completions[t] = @ + 1]

completeChallengeTimer(st, t) ==
    LET a == pauseChallengeTimer(st, t) IN
    [a EXCEPT !.completions[t] = @ + 1]

\* The callback with remaining -= 2 in place of remaining--.
timerCallback_SkipsASecond(st, t) ==
    LET b == [st EXCEPT !.heap[t].remaining = @ - 2,
                        !.ticks[t] = @ + 1]
    IN IF b.heap[t].remaining <= 0 THEN completeTimer(b, t) ELSE b

\* The interval callback of resumeTimer (1481-1488).
timerCallback(st, t) ==
    LET b == [st EXCEPT !.heap[t].remaining = @ - 1,
                        !.ticks[t] = @ + 1]
    IN IF b.heap[t].remaining <= 0 THEN completeTimer(b, t) ELSE b

\* The interval callback of resumeChallengeTimer (1654-1661).
challengeCallback(st, t) ==
    LET b == [st EXCEPT !.heap[t].remaining = @ - 1,
                        !.ticks[t] = @ + 1]
    IN IF b.heap[t].remaining <= 0 THEN completeChallengeTimer(b, t) ELSE b

\* this.timers.forEach(timer => { if (sel(timer)) pause(timer) })
RECURSIVE PauseEach(_, _, _)
PauseEach(st, ids, kinds) ==
    IF ids = <<>> THEN st
    ELSE LET t == Head(ids)
             a == IF st.heap[t].isChallenge \in kinds
                  THEN (IF kinds = {TRUE} THEN pauseChallengeTimer(st, t)
                                          ELSE pauseTimer(st, t))
                  ELSE st
         IN PauseEach(a, Tail(ids), kinds)

\* Array.from(this.timers.values()).find(pred): the first entry, in insertion
\* order, that satisfies pred; Null when there is none.
RECURSIVE FindFirst(_, _)
FindFirst(ids, ok) ==
    IF ids = <<>> THEN Null
    ELSE IF Head(ids) \in ok THEN Head(ids)
    ELSE FindFirst(Tail(ids), ok)

\* Array.prototype.findLast in place of find.
RECURSIVE FindLast(_, _)
FindLast(ids, ok) ==
    IF ids = <<>> THEN Null
    ELSE IF ids[Len(ids)] \in ok THEN ids[Len(ids)]
    ELSE FindLast(SubSeq(ids, 1, Len(ids) - 1), ok)

\* activeTimer resolved to the newest matching timer.
activeTimer_Newest ==
    FindLast(timers, {t \in Range(timers) : heap[t].isRunning \/ timerModalActive})

\* handleTimerControl's activeTimer (1454)
activeTimer ==
    FindFirst(timers, {t \in Range(timers) : heap[t].isRunning \/ timerModalActive})

\* handleChallengeTimerControl's activeTimer (1630)
activeChallengeTimer ==
    FindFirst(timers, {t \in Range(timers) :
                          heap[t].isChallenge
                          /\ (heap[t].isRunning \/ challengeModalActive)})

\* Write a store back to the variables.
Commit(st) ==
    /\ heap' = st.heap
    /\ intervals' = st.intervals
    /\ completions' = st.completions
    /\ ticks' = st.ticks

\* ---------------------------------------------------------------- actions
NewTimer(d, challenge) ==
    [duration |-> d, remaining |-> d, isRunning |-> FALSE, interval |-> Null,
     isChallenge |-> challenge]

\* The timer object and its counters, kept under the timer's id.
Extend(f, id, v) == [x \in DOMAIN f \cup {id} |-> IF x = id THEN v ELSE f[x]]

startTimer(d) ==
    /\ nextId < MaxStarts
    /\ LET id == nextId + 1 IN
       /\ nextId' = id
       /\ heap' = Extend(heap, id, NewTimer(d, FALSE))
       /\ ticks' = Extend(ticks, id, 0)
       /\ completions' = Extend(completions, id, 0)
       /\ timers' = MapSet(timers, id)
       \* showTimerModal(timer)
       /\ timerModalActive' = TRUE
       /\ shown' = [shown EXCEPT !.workout = id]
       /\ op' = "startTimer"
    /\ UNCHANGED <<intervals, challengeModalActive>>

startChallengeTimer(d) ==
    /\ nextId < MaxStarts
    /\ LET id == nextId + 1 IN
       /\ nextId' = id
       /\ heap' = Extend(heap, id, NewTimer(d, TRUE))
       /\ ticks' = Extend(ticks, id, 0)
       /\ completions' = Extend(completions, id, 0)
       /\ timers' = MapSet(timers, id)
       \* showChallengeTimerModal(timer)
       /\ challengeModalActive' = TRUE
       /\ shown' = [shown EXCEPT !.challenge = id]
       /\ op' = "startTimer"
    /\ UNCHANGED <<intervals, timerModalActive>>

\* stopTimer without its pauseTimer call.
stopTimer_NoPause(t) ==
    LET live == (Range(timers) \ {t}) \cup {r.t : r \in intervals}
        keep(f) == [x \in DOMAIN f \cap live |-> f[x]]
    IN /\ Commit([Store EXCEPT !.heap = keep(heap), !.ticks = keep(ticks),
                               !.completions = keep(completions)])
       /\ timerModalActive' = FALSE
       /\ timers' = MapDelete(timers, t)

\* stopTimer (1537-1550); an object no interval refers to any more is collected.
stopTimer(t) ==
    LET a == pauseTimer(Store, t)
        live == (Range(timers) \ {t}) \cup {r.t : r \in a.intervals}
        keep(f) == [x \in DOMAIN f \cap live |-> f[x]]
    IN /\ Commit([a EXCEPT !.heap = keep(a.heap), !.ticks = keep(a.ticks),
                           !.completions = keep(a.completions)])
       /\ timerModalActive' = FALSE
       /\ timers' = MapDelete(timers, t)

\* The control a button stands for: the start button resumes (1460, 1636).
OpName(action) == IF action = "start" THEN "resume" ELSE action

handleTimerControl(action) ==
    LET t == activeTimer IN
    /\ op' = OpName(action)
    /\ UNCHANGED <<nextId, challengeModalActive, shown>>
    /\ IF t = Null
       THEN UNCHANGED <<timers, heap, intervals, timerModalActive, ticks, completions>>
       ELSE CASE action = "start" ->
                    Commit(resumeTimer(Store, t))
                    /\ UNCHANGED <<timers, timerModalActive>>
              [] action = "pause" ->
                    Commit(pauseTimer(Store, t))
                    /\ UNCHANGED <<timers, timerModalActive>>
              [] action = "reset" ->
                    Commit(resetTimer(Store, t))
                    /\ UNCHANGED <<timers, timerModalActive>>
              [] action = "stop" -> stopTimer(t)

handleChallengeTimerControl(action) ==
    LET t == activeChallengeTimer IN
    /\ op' = OpName(action)
    /\ UNCHANGED <<nextId, timerModalActive, challengeModalActive, shown, timers>>
    /\ IF t = Null
       THEN UNCHANGED <<heap, intervals, ticks, completions>>
       ELSE CASE action = "start" -> Commit(resumeChallengeTimer(Store, t))
              [] action = "pause" -> Commit(pauseChallengeTimer(Store, t))
              [] action = "reset" -> Commit(resetChallengeTimer(Store, t))

\* One firing of a live interval.
Tick(r) ==
    /\ heap[r.t].remaining > -MaxOverrun
    /\ Commit(IF r.cb = "workout" THEN timerCallback(Store, r.t)
                                  ELSE challengeCallback(Store, r.t))
    /\ op' = "tick"
    /\ UNCHANGED <<timers, nextId, timerModalActive, challengeModalActive, shown>>

\* closeModal without the pauses of its timer-modal branch.
closeModal_NoPause(st, isTimerModal) == st

\* closeModal(modal, index) (1774-1783)
closeModal(st, isTimerModal) ==
    IF isTimerModal THEN PauseEach(st, timers, {TRUE, FALSE}) ELSE st

\* closeTimerModal (1718-1730)
closeTimerModal(st) == PauseEach(st, timers, {FALSE})

\* closeChallengeTimerModal (1735-1747)
closeChallengeTimerModal(st) == PauseEach(st, timers, {TRUE})

\* The timer modal's close button carries two listeners (1152, 1164).
ClickTimerClose ==
    /\ Commit(closeTimerModal(closeModal(Store, TRUE)))
    /\ timerModalActive' = FALSE
    /\ op' = "close"
    /\ UNCHANGED <<timers, nextId, challengeModalActive, shown>>

\* A click on the timer modal's backdrop (1155-1159).
ClickTimerBackdrop ==
    /\ Commit(closeModal(Store, TRUE))
    /\ timerModalActive' = FALSE
    /\ op' = "close"
    /\ UNCHANGED <<timers, nextId, challengeModalActive, shown>>

\* The challenge modal's close button carries two listeners (1152, 1168).
ClickChallengeClose ==
    /\ Commit(closeChallengeTimerModal(closeModal(Store, FALSE)))
    /\ challengeModalActive' = FALSE
    /\ op' = "close"
    /\ UNCHANGED <<timers, nextId, timerModalActive, shown>>

ClickChallengeBackdrop ==
    /\ Commit(closeModal(Store, FALSE))
    /\ challengeModalActive' = FALSE
    /\ op' = "close"
    /\ UNCHANGED <<timers, nextId, timerModalActive, shown>>

\* handleKeyNavigation, Escape (1840-1846): closeModal on every active modal.
PressEscape ==
    /\ Commit(IF timerModalActive THEN closeModal(Store, TRUE) ELSE Store)
    /\ timerModalActive' = FALSE
    /\ challengeModalActive' = FALSE
    /\ op' = "close"
    /\ UNCHANGED <<timers, nextId, shown>>

\* ------------------------------------------------------ reminder subsystem
\* Strings the code looks into are sequences of one-character strings.
IsSpace(c) == c = " "

\* String.prototype.trim
RECURSIVE TrimLeft(_)
TrimLeft(str) ==
    IF str = <<>> THEN <<>>
    ELSE IF IsSpace(Head(str)) THEN TrimLeft(Tail(str))
    ELSE str

RECURSIVE TrimRight(_)
TrimRight(str) ==
    IF str = <<>> THEN <<>>
    ELSE IF IsSpace(str[Len(str)]) THEN TrimRight(SubSeq(str, 1, Len(str) - 1))
    ELSE str

Trim(str) == TrimRight(TrimLeft(str))

\* [^\s@]+ matches str[i..j]
Plain(str, i, j) ==
    /\ i <= j
    /\ \A k \in i..j : ~IsSpace(str[k]) /\ str[k] # "@"

\* The pattern without its anchors: a match anywhere in the string.
emailRegexTest_Unanchored(str) ==
    \E a, b \in 1..Len(str) :
        \E i, j \in a..b :
            /\ str[i] = "@"
            /\ str[j] = "."
            /\ Plain(str, a, i - 1)
            /\ Plain(str, i + 1, j - 1)
            /\ Plain(str, j + 1, b)

\* A test that lets every non-empty string pass.
emailRegexTest_AnyNonEmpty(str) == str # <<>>

\* /^[^\s@]+@[^\s@]+\.[^\s@]+$/.test(str)  (2135)
emailRegexTest(str) ==
    \E i, j \in 1..Len(str) :
        /\ str[i] = "@"
        /\ str[j] = "."
        /\ Plain(str, 1, i - 1)
        /\ Plain(str, i + 1, j - 1)
        /\ Plain(str, j + 1, Len(str))

\* What the user can have in the form when it is submitted.
Titles == {<<>>, <<" ">>, <<"A">>}

Emails == {<<>>, <<" ">>,
           <<"a", "@", "b", ".", "c">>,
           <<" ", "a", "@", "b", ".", "c", " ">>,
           <<"a", "b", ".", "c">>,
           <<"a", "@", "b", "c">>,
           <<"a", "@", "b", ".">>,
           <<"@", "b", ".", "c">>,
           <<"a", " ", "@", "b", ".", "c">>,
           <<"a", "@", "b", "@", "c", ".", "d">>}

\* Every text of at most MaxEmailLen characters: a letter, the dot, the at
\* sign, the space.
EmailChars == {"a", ".", "@", " "}

EmailInputs == UNION {[1..n -> EmailChars] : n \in 0..MaxEmailLen}

\* The complete form with this text in its email field.
FormWithEmail(text) ==
    [title |-> <<"A">>, email |-> text, date |-> <<2>>, time |-> <<1>>,
     duration |-> 30, repeat |-> "none", notes |-> <<>>, reminderMinutes |-> 1,
     website |-> <<>>]

\* A date or time input is empty (<<>>) or holds a value (<<minutes>>).
Dates == {<<>>, <<2>>}

Times == {<<>>, <<1>>}

Honeypots == {<<>>, <<"x">>}

Leads == {1, 2}

\* The forms with these values to choose from.
FormsWith(titles, emails, dates, times, leads, honeypots) ==
    [title : titles, email : emails, date : dates, time : times,
     duration : {30}, repeat : {"none"}, notes : {<<>>},
     reminderMinutes : leads, website : honeypots]

\* The forms submitted: complete ones with either lead time, and, with the
\* default lead time, forms with a title, an email, or a date and time that is
\* missing or malformed, with the honeypot empty and filled.
Forms ==
    LET title == {<<"A">>}
        email == {<<"a", "@", "b", ".", "c">>}
        padded == {<<" ", "a", "@", "b", ".", "c", " ">>}
        noAt == {<<"a", "b", ".", "c">>}
        date == {<<2>>}
        time == {<<1>>}
    IN FormsWith(title, email \cup padded, date, time, Leads, {<<>>})
       \cup FormsWith(Titles, email, date, time, {1}, Honeypots)
       \cup FormsWith(title, Emails, date, time, {1}, {<<>>})
       \cup FormsWith(title, noAt, date, time, {1}, Honeypots)
       \cup FormsWith(title, email, Dates, Times, {1}, Honeypots)

\* new Date(`${date}T${time}`).getTime()
DateTime(date, time) == date[1] + time[1]

\* A send that starts with the webhook whether the email API is loaded or not.
FirstTier_SkipsEmailApi == "webhook"

\* The first tier a send starts with (2277, 2310): the email API when it is
\* loaded, else the webhook's fetch.
FirstTier == IF emailjsLoaded THEN "emailjs" ELSE "webhook"

\* A send in flight: what it is for, where it stands, and what its awaiter holds
\* (the time read at 2189 for a confirmation, Null for the others).
NewJob(kind, rec, now0) ==
    [kind |-> kind, tier |-> FirstTier, rec |-> rec, now0 |-> now0]

\* The string JSON.stringify writes for the array in storedReminders.
ArrayText == "[...]"

\* Strings under the key that are not the JSON of an array: the empty string,
\* text that is no JSON, JSON of an object, JSON null.
CorruptTexts == {"", "{oops", "{}", "null"}

\* A read that takes every string that is no array for the empty array.
ParsedArray_Lenient(text, stored) == IF text = ArrayText THEN <<stored>> ELSE << <<>> >>

\* JSON.parse(localStorage.getItem(key) || '[]') as far as forEach and push can
\* use it (2225-2226, 2238-2242): <<array>>, or <<>> when JSON.parse throws or
\* returns a value without forEach and push. The empty string is falsy and
\* '[]' is parsed in its place.
ParsedArray(text, stored) ==
    IF text = ArrayText THEN <<stored>>
    ELSE IF text = "" THEN << <<>> >>
    ELSE <<>>

\* storeScheduledReminder without the push.
storeScheduledReminder_Drops(stored, rec) == stored

\* storeScheduledReminder (2223-2231)
storeScheduledReminder(stored, rec) == Append(stored, rec)

\* The validation without the honeypot test.
Verdict_NoHoneypot(f) ==
    IF Trim(f.title) = <<>> \/ Trim(f.email) = <<>> \/ f.date = <<>> \/ f.time = <<>>
         THEN "required"
    ELSE IF ~emailRegexTest(Trim(f.email)) THEN "email"
    ELSE "accepted"

\* The validation of handleReminderSubmit (2116-2139): what the handler does
\* with the form.
Verdict(f) ==
    IF f.website # <<>> THEN "spam"
    ELSE IF Trim(f.title) = <<>> \/ Trim(f.email) = <<>> \/ f.date = <<>> \/ f.time = <<>>
         THEN "required"
    ELSE IF ~emailRegexTest(Trim(f.email)) THEN "email"
    ELSE "accepted"

\* handleReminderSubmit (2111-2167), with the synchronous part of
\* scheduleEmailReminder (2183-2193), saveReminderPreferences and
\* showReminderSuccess.
handleReminderSubmit(f) ==
    /\ submits < MaxSubmits
    /\ submits' = submits + 1
    /\ op' = "submit"
    /\ notified' = "none"
    /\ UNCHANGED <<now, emailjsLoaded, permission, storedReminders, storedText, armed,
                   reminderModalActive>>
    /\ LET verdict == Verdict(f)
       IN IF verdict = "spam"
          THEN /\ alerted' = "none"
               /\ UNCHANGED <<prefs, currentReminder, jobs, formView>>
          ELSE IF verdict \in {"required", "email"}
          THEN /\ alerted' = verdict
               /\ UNCHANGED <<prefs, currentReminder, jobs, formView>>
          ELSE LET cur == [title |-> Trim(f.title), email |-> Trim(f.email),
                           date |-> f.date, time |-> f.time, duration |-> f.duration,
                           repeat |-> f.repeat, notes |-> Trim(f.notes),
                           reminderMinutes |-> f.reminderMinutes]
                   workout == DateTime(cur.date, cur.time)
                   rec == [email |-> cur.email, title |-> cur.title,
                           workoutDateTime |-> workout, duration |-> cur.duration,
                           notes |-> cur.notes,
                           reminderDateTime |-> workout - cur.reminderMinutes]
               IN /\ currentReminder' = <<cur>>
                  /\ jobs' = jobs (+) SetToBag({NewJob("confirmation", rec, now)})
                  /\ prefs' = <<[title |-> cur.title, email |-> cur.email,
                                 duration |-> cur.duration, repeat |-> cur.repeat,
                                 reminderMinutes |-> cur.reminderMinutes]>>
                  /\ formView' = "success"
                  /\ alerted' = "none"

\* The rest of scheduleEmailReminder reading this.currentReminder after the
\* await instead of the constants destructured before it.
AfterSend_ReadsCurrent(job, success) ==
    LET cur == currentReminder[1]
        workout == DateTime(cur.date, cur.time)
        rec == [email |-> cur.email, title |-> cur.title,
                workoutDateTime |-> workout, duration |-> cur.duration,
                notes |-> cur.notes,
                reminderDateTime |-> workout - cur.reminderMinutes]
        timeUntilReminder == rec.reminderDateTime - job.now0
    IN IF job.kind = "confirmation"
       THEN IF timeUntilReminder > 0
            THEN /\ armed' = armed (+) SetToBag({[rec |-> rec,
                                                  due |-> now + timeUntilReminder]})
                 /\ LET read == ParsedArray(storedText, storedReminders)
                    IN IF Len(read) = 0
                       THEN UNCHANGED <<storedReminders, storedText>>
                       ELSE /\ storedReminders' = storeScheduledReminder(read[1], rec)
                            /\ storedText' = ArrayText
                 /\ alerted' = "none"
            ELSE /\ alerted' = "past"
                 /\ UNCHANGED <<armed, storedReminders, storedText>>
       ELSE /\ alerted' = "none"
            /\ UNCHANGED <<armed, storedReminders, storedText>>

\* What runs when a send has returned true or false (success): the rest of
\* scheduleEmailReminder (2196-2217) after the confirmation, the rest of
\* testEmailService (2090-2105) after the test, nothing after a reminder.
AfterSend(job, success) ==
    LET timeUntilReminder == job.rec.reminderDateTime - job.now0
    IN IF job.kind = "test"
       THEN /\ alerted' = IF success THEN "test sent" ELSE "test failed"
            /\ UNCHANGED <<armed, storedReminders, storedText>>
       ELSE IF job.kind = "confirmation"
       THEN IF timeUntilReminder > 0
            THEN /\ armed' = armed (+) SetToBag({[rec |-> job.rec,
                                                  due |-> now + timeUntilReminder]})
                 /\ LET read == ParsedArray(storedText, storedReminders)
                    IN IF Len(read) = 0
                       THEN UNCHANGED <<storedReminders, storedText>>
                       ELSE /\ storedReminders' = storeScheduledReminder(read[1], job.rec)
                            /\ storedText' = ArrayText
                 /\ alerted' = "none"
            ELSE /\ alerted' = "past"
                 /\ UNCHANGED <<armed, storedReminders, storedText>>
       ELSE /\ alerted' = "none"
            /\ UNCHANGED <<armed, storedReminders, storedText>>

\* emailjs.send settles (2287-2296, 2314-2323): resolved, the send returns
\* true; rejected, the catch logs and the webhook's fetch starts.
EmailJsSettles(job, ok) ==
    /\ BagIn(job, jobs)
    /\ job.tier = "emailjs"
    /\ IF ok
       THEN /\ jobs' = jobs (-) SetToBag({job})
            /\ AfterSend(job, TRUE)
       ELSE /\ jobs' = (jobs (-) SetToBag({job}))
                           (+) SetToBag({[job EXCEPT !.tier = "webhook"]})
            /\ alerted' = "none"
            /\ UNCHANGED <<armed, storedReminders, storedText>>
    /\ op' = "emailjs"
    /\ notified' = "none"
    /\ UNCHANGED <<now, emailjsLoaded, permission, prefs, currentReminder,
                   formView, reminderModalActive, submits>>

\* showBrowserNotification (2376-2394): a notification when permission is
\* granted, or is asked for and granted (answer); none when it is denied.
showBrowserNotification(answer) ==
    /\ IF permission = "default" THEN permission' = answer ELSE UNCHANGED permission
    /\ notified' = IF permission' = "granted" THEN "shown" ELSE "blocked"

\* fetch settles (2345-2370): response.ok, the send returns true; otherwise the
\* catch shows the browser notification and the send returns false.
WebhookSettles(job, ok, answer) ==
    /\ BagIn(job, jobs)
    /\ job.tier = "webhook"
    /\ jobs' = jobs (-) SetToBag({job})
    /\ AfterSend(job, ok)
    /\ IF ok THEN notified' = "none" /\ UNCHANGED permission
             ELSE showBrowserNotification(answer)
    /\ op' = "webhook"
    /\ UNCHANGED <<now, emailjsLoaded, prefs, currentReminder, formView,
                   reminderModalActive, submits>>

\* What the user can type into the prompt of the test: nothing (or Cancel), text
\* without "@", text with "@".
TestInputs == {<<>>, <<"a">>, <<"a", "@">>}

\* testEmailService (2063-2106) up to its await. The button is disabled while
\* a test is in flight (2076, 2104), so there is one test at a time.
testEmailService(testEmail) ==
    /\ \A job \in BagToSet(jobs) : job.kind # "test"
    /\ IF testEmail = <<>> \/ "@" \notin Range(testEmail)
       THEN /\ alerted' = "email"
            /\ UNCHANGED jobs
       ELSE /\ alerted' = "none"
            /\ jobs' = jobs (+) SetToBag({NewJob("test",
                           [email |-> testEmail, title |-> <<"T">>,
                            duration |-> 30, notes |-> <<"t">>], Null)})
    /\ notified' = "none"
    /\ op' = "test"
    /\ UNCHANGED <<now, emailjsLoaded, permission, storedReminders, storedText, prefs,
                   currentReminder, armed, formView, reminderModalActive, submits>>

\* The setTimeout callback of a deferred send (2202-2205, 2249-2257).
DeferredFires(a) ==
    /\ BagIn(a, armed)
    /\ now >= a.due
    /\ armed' = armed (-) SetToBag({a})
    /\ jobs' = jobs (+) SetToBag({NewJob("reminder", a.rec, Null)})
    /\ UNCHANGED <<now, emailjsLoaded, permission, storedReminders, storedText, prefs,
                   currentReminder, formView, reminderModalActive, submits>>
    /\ alerted' = "none"
    /\ notified' = "none"
    /\ op' = "timeout"

\* A minute passes; a timeout that is due runs before the clock moves on.
ClockTick ==
    /\ now < MaxNow
    /\ \A a \in BagToSet(armed) : a.due > now
    /\ now' = now + 1
    /\ UNCHANGED <<emailjsLoaded, permission, storedReminders, storedText, prefs, currentReminder,
                   jobs, armed, formView, reminderModalActive, submits>>
    /\ alerted' = "none"
    /\ notified' = "none"
    /\ op' = "clock"

\* openReminderModal (2028-2048)
openReminderModal ==
    /\ reminderModalActive' = TRUE
    /\ UNCHANGED <<now, emailjsLoaded, permission, storedReminders, storedText, prefs,
                   currentReminder, jobs, armed, formView, submits>>
    /\ alerted' = "none"
    /\ notified' = "none"
    /\ op' = "open"

\* A close that also drops the pending timeouts.
closeReminderModal_Cancels ==
    /\ reminderModalActive' = FALSE
    /\ formView' = "form"
    /\ armed' = EmptyBag
    /\ UNCHANGED <<now, emailjsLoaded, permission, storedReminders, storedText, prefs,
                   currentReminder, jobs, submits>>
    /\ alerted' = "none"
    /\ notified' = "none"
    /\ op' = "close"

\* closeReminderModal (2053-2058)
closeReminderModal ==
    /\ reminderModalActive' = FALSE
    /\ formView' = "form"
    /\ UNCHANGED <<now, emailjsLoaded, permission, storedReminders, storedText, prefs,
                   currentReminder, jobs, armed, submits>>
    /\ alerted' = "none"
    /\ notified' = "none"
    /\ op' = "close"

\* checkScheduledReminders (2236-2268), the array written back (2263): the
\* records whose reminder time is after the time read at 2239, in their order.
\* Without the filter:
Remaining_KeepsAll(stored, t) == stored

Remaining(stored, t) ==
    SelectSeq(stored, LAMBDA reminder : reminder.reminderDateTime - t > 0)

\* checkScheduledReminders, the timeouts set (2248-2257): one for each record
\* pushed to remaining, with the delay timeUntilReminder.
Rescheduled(remaining, t) ==
    LET timeout(i) == [rec |-> remaining[i],
                       due |-> t + (remaining[i].reminderDateTime - t)]
    IN [a \in {timeout(i) : i \in DOMAIN remaining} |->
           Cardinality({i \in DOMAIN remaining : timeout(i) = a})]

\* checkScheduledReminders (2236-2268) as a whole: what it leaves under the key
\* and the timeouts it sets. When the read throws, the catch logs: nothing is
\* written and nothing is set.
checkScheduledReminders(text, stored, t) ==
    LET read == ParsedArray(text, stored)
    IN IF Len(read) = 0
       THEN [stored |-> stored, text |-> text, armed |-> EmptyBag]
       ELSE [stored |-> Remaining(read[1], t), text |-> ArrayText,
             armed |-> Rescheduled(Remaining(read[1], t), t)]

\* The string under the scheduled-reminders key is replaced from outside the
\* page's code (the browser's storage tools, another script of the origin):
\* the next getItem (2225, 2238) returns it.
StorageOverwritten(text) ==
    /\ storedText' = text
    /\ storedReminders' = <<>>
    /\ op' = "overwrite"
    /\ alerted' = "none"
    /\ notified' = "none"
    /\ UNCHANGED <<now, emailjsLoaded, permission, prefs, currentReminder, jobs, armed,
                   formView, reminderModalActive, submits>>

\* The URL that sendEmailViaWebhook posts to (2345), which is also the one
\* config.js ships as fallback.webhookUrl.
FormspreeUrl == "https://formspree.io/f/xnnqlrpv"

\* The URL of the fetch of a send that is in its webhook tier (2345).
fetchUrl(job) == FormspreeUrl

\* The fallback sections config.js can hold (config.js:23-28).
Fallbacks ==
    [webhookUrl : {FormspreeUrl, "https://example.org/hook"}, enabled : BOOLEAN]

\* The five remembered fields as the page's markup leaves them.
FieldDefaults ==
    [title |-> <<>>, email |-> <<>>, duration |-> 30, repeat |-> "none",
     reminderMinutes |-> 1]

\* if (prefs.duration), if (prefs.reminderMinutes): 0 is falsy, and so are NaN
\* and the null that JSON.stringify makes of it.
Truthy(n) == n # 0 /\ n # NaN

\* loadReminderPreferences (2485-2507): a field is written when the saved
\* record holds a truthy value for it, and keeps its value otherwise.
loadReminderPreferences(saved, fields) ==
    IF saved = <<>> THEN fields
    ELSE LET p == saved[1] IN
         [title |-> IF p.title # <<>> THEN p.title ELSE fields.title,
          email |-> IF p.email # <<>> THEN p.email ELSE fields.email,
          duration |-> IF Truthy(p.duration) THEN p.duration ELSE fields.duration,
          repeat |-> IF p.repeat # "" THEN p.repeat ELSE fields.repeat,
          reminderMinutes |-> IF Truthy(p.reminderMinutes) THEN p.reminderMinutes
                                                           ELSE fields.reminderMinutes]

\* The page is loaded again: the constructor and init (985-1041) run on a fresh
\* page. What the old page held in memory (timers, intervals, sends in flight,
\* timeouts, this.currentReminder, the modals) is gone; local storage, the
\* notification permission and the clock stay. The scripts load as before.
PageLoad ==
    /\ timers' = <<>>
    /\ heap' = <<>>
    /\ intervals' = {}
    /\ timerModalActive' = FALSE
    /\ challengeModalActive' = FALSE
    /\ shown' = [workout |-> Null, challenge |-> Null]
    /\ ticks' = <<>>
    /\ completions' = <<>>
    /\ op' = "init"
    /\ currentReminder' = <<>>
    /\ jobs' = EmptyBag
    /\ formView' = "form"
    /\ reminderModalActive' = FALSE
    /\ alerted' = "none"
    /\ notified' = "none"
    /\ LET scan == checkScheduledReminders(storedText, storedReminders, now)
       IN /\ storedReminders' = scan.stored
          /\ storedText' = scan.text
          /\ armed' = scan.armed
    /\ startup' = [threw |-> "none", announced |-> FALSE, escaped |-> FALSE,
                   listening |-> TRUE]
    /\ prefilled' = loadReminderPreferences(prefs, FieldDefaults)
    /\ UNCHANGED <<nextId, now, emailjsLoaded, permission, prefs, submits>>
    /\ display' = LoadedDisplay
    /\ activeSection' = "home"
    /\ UNCHANGED <<fallback, emailInput, ics, otherArmed, tally>>

\* One content line of the calendar file, NAME:value.
Line(name, value) == [name |-> name, value |-> value]

\* formatDate (2403-2405): toISOString with the punctuation removed, which
\* writes the instant in UTC, or throws when the date is invalid.
formatDate(t) == [instant |-> t, zone |-> "Z"]

\* A recurrence rule whatever the repeat.
rrule_Always(repeat) == <<Line("RRULE", "FREQ=DAILY")>>

\* rrule (2408-2413)
rrule(repeat) ==
    IF repeat = "daily" THEN <<Line("RRULE", "FREQ=DAILY")>>
    ELSE IF repeat = "weekly" THEN <<Line("RRULE", "FREQ=WEEKLY")>>
    ELSE <<>>

\* reminderTrigger (2416): -PT<reminderMinutes>M, a duration before the start.
reminderTrigger(reminderMinutes) == [sign |-> "-", minutes |-> reminderMinutes]

\* valarm (2417-2421)
valarm(cur) ==
    <<Line("BEGIN", "VALARM"),
      Line("TRIGGER", reminderTrigger(cur.reminderMinutes)),
      Line("DESCRIPTION", cur.title),
      Line("ACTION", "DISPLAY"),
      Line("END", "VALARM")>>

\* icsContent (2424-2444), generated at time t.
icsContent(cur, t) ==
    LET startDateTime == DateTime(cur.date, cur.time)
        endDateTime == startDateTime + cur.duration
    IN <<Line("BEGIN", "VCALENDAR"),
         Line("VERSION", "2.0"),
         Line("PRODID", "-//Microsoft Corporation//Outlook 16.0 MIMEDIR//EN"),
         Line("CALSCALE", "GREGORIAN"),
         Line("METHOD", "PUBLISH"),
         Line("BEGIN", "VEVENT"),
         Line("UID", t),
         Line("DTSTAMP", formatDate(t)),
         Line("DTSTART", formatDate(startDateTime)),
         Line("DTEND", formatDate(endDateTime)),
         Line("SUMMARY", cur.title),
         Line("DESCRIPTION", IF cur.notes # <<>> THEN cur.notes
                                                 ELSE <<"default text">>),
         Line("LOCATION", "Your preferred workout space"),
         Line("CATEGORIES", "FITNESS,HEALTH,PERSONAL"),
         Line("PRIORITY", "5"),
         Line("STATUS", "CONFIRMED"),
         Line("TRANSP", "OPAQUE")>>
       \o rrule(cur.repeat)
       \o valarm(cur)
       \o <<Line("END", "VEVENT"), Line("END", "VCALENDAR")>>

\* downloadOutlookICS (2395-2461), the onclick of the download button of the
\* success view (2177). With a duration that is not a number the end date is
\* invalid, formatDate throws and no file is made.
downloadOutlookICS ==
    /\ currentReminder # <<>>
    /\ ics' = IF currentReminder[1].duration = NaN THEN ics
              ELSE <<icsContent(currentReminder[1], now)>>
    /\ op' = "download"
    /\ alerted' = "none"
    /\ notified' = "none"
    /\ UNCHANGED <<now, emailjsLoaded, permission, storedReminders, storedText, prefs,
                   currentReminder, jobs, armed, formView, reminderModalActive, submits>>
    /\ UNCHANGED <<timerState, navVars, startup, fallback, emailInput, prefilled, otherArmed, tally>>

\* A second instance of the page is opened, or reloaded, over the same local
\* storage: its constructor runs checkScheduledReminders (1030, 2236-2268) on
\* the shared array and sets its own timeouts. This page's handlers do not run.
OtherPageLoad ==
    /\ LET scan == checkScheduledReminders(storedText, storedReminders, now)
       IN /\ storedReminders' = scan.stored
          /\ storedText' = scan.text
          /\ otherArmed' = scan.armed
    /\ op' = "other load"
    /\ alerted' = "none"
    /\ notified' = "none"
    /\ UNCHANGED <<now, emailjsLoaded, permission, prefs, currentReminder, jobs, armed,
                   formView, reminderModalActive, submits>>
    /\ UNCHANGED <<timerState, navVars, startup, fallback, emailInput, prefilled, ics, tally>>

\* The setTimeout callback of a deferred send in the second instance
\* (2249-2257): sendEmailReminder starts there.
OtherDeferredFires(a) ==
    /\ BagIn(a, otherArmed)
    /\ now >= a.due
    /\ otherArmed' = otherArmed (-) SetToBag({a})
    /\ tally' = [tally EXCEPT !.sent = @ (+) SetToBag({a.rec})]
    /\ op' = "other timeout"
    /\ alerted' = "none"
    /\ notified' = "none"
    /\ UNCHANGED <<now, emailjsLoaded, permission, storedReminders, storedText, prefs,
                   currentReminder, jobs, armed, formView, reminderModalActive, submits>>
    /\ UNCHANGED <<timerState, navVars, startup, fallback, emailInput, prefilled, ics>>

\* The steps of a page load that can end with an exception, in the order in
\* which they run: initEmailJS from the constructor (990), the others from the
\* try block of init (1023-1033). checkScheduledReminders (1030) catches what
\* is thrown inside it (2265) and is not among them.
Steps == <<"initEmailJS", "cacheElements", "initEventListeners",
           "initIntersectionObserver", "initAccessibilityFeatures",
           "initCalendarReminder", "trackUserInteraction">>

\* The place of a step in the page load.
StepIndex(step) == CHOOSE i \in DOMAIN Steps : Steps[i] = step

\* The catch of init (1037-1040) runs handleError (1974-1982), which makes the
\* error announcement: for the steps inside the try block, not for initEmailJS.
initCatch(step) == step # "initEmailJS"

\* The page is loaded again and `step` throws. What ran before it has taken
\* effect, what comes after it is skipped: the reminder listeners are attached
\* when initCalendarReminder has run, the stored reminders are checked when
\* checkScheduledReminders has run.
PageLoadThrows(step) ==
    LET caught == initCatch(step)
        complete == StepIndex(step) > StepIndex("initCalendarReminder")
    IN /\ timers' = <<>>
       /\ heap' = <<>>
       /\ intervals' = {}
       /\ timerModalActive' = FALSE
       /\ challengeModalActive' = FALSE
       /\ shown' = [workout |-> Null, challenge |-> Null]
       /\ ticks' = <<>>
       /\ completions' = <<>>
       /\ op' = "init"
       /\ currentReminder' = <<>>
       /\ jobs' = EmptyBag
       /\ formView' = "form"
       /\ reminderModalActive' = FALSE
       /\ alerted' = "none"
       /\ notified' = "none"
       /\ LET scan == checkScheduledReminders(storedText, storedReminders, now)
          IN IF complete
             THEN /\ storedReminders' = scan.stored
                  /\ storedText' = scan.text
                  /\ armed' = scan.armed
             ELSE /\ UNCHANGED <<storedReminders, storedText>>
                  /\ armed' = EmptyBag
       /\ startup' = [threw |-> step, announced |-> caught,
                      escaped |-> step = "initEmailJS", listening |-> complete]
       /\ prefilled' = IF complete THEN loadReminderPreferences(prefs, FieldDefaults)
                                   ELSE FieldDefaults
       /\ UNCHANGED <<nextId, now, emailjsLoaded, permission, prefs, submits>>
       /\ display' = LoadedDisplay
       /\ activeSection' = "home"
       /\ UNCHANGED <<fallback, emailInput, ics, otherArmed, tally>>

vars == <<timerVars, reminderVars, navVars>>

\* ------------------------------------------------------- timer durations
Digits == <<"0", "1", "2", "3", "4", "5", "6", "7", "8", "9">>

IsDigit(c) == \E k \in 1..10 : Digits[k] = c

DigitValue(c) == (CHOOSE k \in 1..10 : Digits[k] = c) - 1

\* The value of a string of decimal digits.
RECURSIVE Decimal(_)
Decimal(ds) ==
    IF ds = <<>> THEN 0
    ELSE 10 * Decimal(SubSeq(ds, 1, Len(ds) - 1)) + DigitValue(ds[Len(ds)])

\* The length of the longest prefix of str made of digits.
DigitPrefix(str) ==
    CHOOSE k \in 0..Len(str) :
        /\ \A i \in 1..k : IsDigit(str[i])
        /\ k = Len(str) \/ ~IsDigit(str[k + 1])

\* parseInt(str) on unsigned input: leading white space is skipped, the
\* digits up to the first other character are read, NaN when there are none.
parseInt(str) ==
    LET t == TrimLeft(str)
        k == DigitPrefix(t)
    IN IF k = 0 THEN NaN ELSE Decimal(SubSeq(t, 1, k))

\* n * 60 in JavaScript arithmetic
Times60(n) == IF n = NaN THEN NaN ELSE n * 60

\* The places <<i, j>> at which /(\d+)\s*min/i matches with group 1 = text[i..j].
MinMatches(text) ==
    {m \in (1..Len(text)) \X (1..Len(text)) :
        /\ m[1] <= m[2]
        /\ \A k \in m[1]..m[2] : IsDigit(text[k])
        /\ \E k \in (m[2] + 1)..(Len(text) - 2) :
              /\ \A x \in (m[2] + 1)..(k - 1) : IsSpace(text[x])
              /\ text[k] \in {"m", "M"}
              /\ text[k + 1] \in {"i", "I"}
              /\ text[k + 2] \in {"n", "N"}}

\* String.prototype.match: group 1 of the leftmost match, in a sequence that
\* is empty when there is no match.
MatchMin(text) ==
    LET ms == MinMatches(text) IN
    IF ms = {} THEN <<>>
    ELSE LET m == CHOOSE x \in ms : \A y \in ms : x[1] <= y[1]
         IN <<SubSeq(text, m[1], m[2])>>

\* What data-duration holds, a whole number of minutes, and the text of the
\* card's duration element.
AttributeValues == {<<"1">>, <<"5">>, <<"1", "0">>, <<"1", "5">>}

DurationTexts ==
    {<<>>, <<"5", " ", "m", "i", "n">>, <<"1", "0", "m", "i", "n">>,
     <<"7", " ", "M", "I", "N">>, <<"x", "3", " ", "8", " ", "m", "i", "n">>,
     <<"m", "i", "n">>, <<"9", " ", "m">>}

\* An attribute or element the card lacks is <<>>, one it has is <<string>>.
Optional(S) == {<<>>} \cup {<<x>> : x \in S}

\* The workout and stretch cards a page can hold.
Cards ==
    [dataDuration : Optional(AttributeValues),
     durationText : Optional(DurationTexts),
     startButton : {TRUE}]
    \cup [dataDuration : {<<<<"5">>>>}, durationText : {<<>>}, startButton : {FALSE}]

\* getTimerDuration as the first class of the file has it (361-368): from
\* the text, whatever the attribute.
getTimerDuration_TextOnly(card) ==
    IF card.durationText # <<>>
    THEN LET match == MatchMin(card.durationText[1]) IN
         IF match # <<>> THEN Times60(parseInt(match[1])) ELSE 300
    ELSE 300

\* getTimerDuration (1362-1376)
getTimerDuration(card) ==
    IF card.dataDuration # <<>> /\ card.dataDuration[1] # <<>>
    THEN Times60(parseInt(card.dataDuration[1]))
    ELSE IF card.durationText # <<>>
    THEN LET match == MatchMin(card.durationText[1]) IN
         IF match # <<>> THEN Times60(parseInt(match[1])) ELSE 300
    ELSE 300

\* handleWorkoutStretchCard (1325-1331)
handleWorkoutStretchCard(card) ==
    IF card.startButton
    THEN startTimer(getTimerDuration(card))
    ELSE UNCHANGED timerVars

\* The state after construction on a first visit (empty local storage). The
\* timer specification runs on a page whose reminder form is not used.
\* showSection (1202-1237): every section is hidden; the target, when
\* this.sections holds it, is shown and becomes this.activeSection.
showSection(sectionName) ==
    /\ display' = [s \in Sections |->
                       IF s = sectionName THEN "block" ELSE "none"]
    /\ activeSection' = IF sectionName \in Sections THEN sectionName
                                                     ELSE activeSection

\* The values of the data-nav attribute of a navigation link.
NavTargets == Sections \cup {NoSection, ""}

\* handleNavigation (1182-1197)
handleNavigation(target) ==
    /\ IF target # "" THEN showSection(target) ELSE UNCHANGED navVars
    /\ op' = "navigate"
    /\ UNCHANGED timerState

\* The click listeners of the logo and of the back buttons (1105-1112).
ClickLogoOrBack ==
    /\ showSection("home")
    /\ op' = "home"
    /\ UNCHANGED timerState

\* handleFeatureCard (1311-1319): the fourth card opens the chat widget.
FeatureSections == <<"workouts", "stretches", "tips", "chat">>

handleFeatureCard(index) ==
    /\ IF index + 1 \in DOMAIN FeatureSections /\ FeatureSections[index + 1] # "chat"
       THEN showSection(FeatureSections[index + 1])
       ELSE UNCHANGED navVars
    /\ op' = "feature"
    /\ UNCHANGED timerState

\* handleKeyNavigation (1847-1855): a key "1" to "4" pressed outside an input
\* or textarea.
KeySections == <<"home", "workouts", "stretches", "tips">>

PressNumberKey(key, inField) ==
    /\ IF key \in DOMAIN KeySections /\ ~inField
       THEN showSection(KeySections[key])
       ELSE UNCHANGED navVars
    /\ op' = "key"
    /\ UNCHANGED timerState

Init ==
    /\ timers = <<>>
    /\ heap = <<>>
    /\ intervals = {}
    /\ nextId = 0
    /\ timerModalActive = FALSE
    /\ challengeModalActive = FALSE
    /\ shown = [workout |-> Null, challenge |-> Null]
    /\ ticks = <<>>
    /\ completions = <<>>
    /\ op = "init"
    /\ now = 0
    /\ emailjsLoaded = TRUE
    /\ permission = "default"
    /\ storedReminders = <<>>
    /\ storedText = ArrayText
    /\ prefs = <<>>
    /\ currentReminder = <<>>
    /\ jobs = EmptyBag
    /\ armed = EmptyBag
    /\ alerted = "none"
    /\ notified = "none"
    /\ formView = "form"
    /\ reminderModalActive = FALSE
    /\ submits = 0
    /\ startup = [threw |-> "none", announced |-> FALSE, escaped |-> FALSE,
                  listening |-> TRUE]
    /\ fallback = [webhookUrl |-> FormspreeUrl, enabled |-> TRUE]
    /\ emailInput = <<>>
    /\ prefilled = FieldDefaults
    /\ ics = <<>>
    /\ otherArmed = EmptyBag
    /\ tally = [accepted |-> EmptyBag, sent |-> EmptyBag, future |-> EmptyBag]
    /\ display = LoadedDisplay
    /\ activeSection = "home"

\* The same, with the email API script loaded or not. On a first visit the
\* notification permission has not been asked for yet.
InitReminder ==
    /\ timers = <<>>
    /\ heap = <<>>
    /\ intervals = {}
    /\ nextId = 0
    /\ timerModalActive = FALSE
    /\ challengeModalActive = FALSE
    /\ shown = [workout |-> Null, challenge |-> Null]
    /\ ticks = <<>>
    /\ completions = <<>>
    /\ op = "init"
    /\ now = 0
    /\ emailjsLoaded \in BOOLEAN
    /\ permission = "default"
    /\ storedReminders = <<>>
    /\ storedText = ArrayText
    /\ prefs = <<>>
    /\ currentReminder = <<>>
    /\ jobs = EmptyBag
    /\ armed = EmptyBag
    /\ alerted = "none"
    /\ notified = "none"
    /\ formView = "form"
    /\ reminderModalActive = FALSE
    /\ submits = 0
    /\ startup = [threw |-> "none", announced |-> FALSE, escaped |-> FALSE,
                  listening |-> TRUE]
    /\ fallback = [webhookUrl |-> FormspreeUrl, enabled |-> TRUE]
    /\ emailInput = <<>>
    /\ prefilled = FieldDefaults
    /\ ics = <<>>
    /\ otherArmed = EmptyBag
    /\ tally = [accepted |-> EmptyBag, sent |-> EmptyBag, future |-> EmptyBag]
    /\ display = LoadedDisplay
    /\ activeSection = "home"

\* The same with any short text typed into the email field.
InitEmail ==
    /\ timers = <<>>
    /\ heap = <<>>
    /\ intervals = {}
    /\ nextId = 0
    /\ timerModalActive = FALSE
    /\ challengeModalActive = FALSE
    /\ shown = [workout |-> Null, challenge |-> Null]
    /\ ticks = <<>>
    /\ completions = <<>>
    /\ op = "init"
    /\ now = 0
    /\ emailjsLoaded \in BOOLEAN
    /\ permission = "default"
    /\ storedReminders = <<>>
    /\ storedText = ArrayText
    /\ prefs = <<>>
    /\ currentReminder = <<>>
    /\ jobs = EmptyBag
    /\ armed = EmptyBag
    /\ alerted = "none"
    /\ notified = "none"
    /\ formView = "form"
    /\ reminderModalActive = FALSE
    /\ submits = 0
    /\ startup = [threw |-> "none", announced |-> FALSE, escaped |-> FALSE,
                  listening |-> TRUE]
    /\ fallback = [webhookUrl |-> FormspreeUrl, enabled |-> TRUE]
    /\ emailInput \in EmailInputs
    /\ prefilled = FieldDefaults
    /\ ics = <<>>
    /\ otherArmed = EmptyBag
    /\ tally = [accepted |-> EmptyBag, sent |-> EmptyBag, future |-> EmptyBag]
    /\ display = LoadedDisplay
    /\ activeSection = "home"


\* The same with a config.js whose fallback section was edited: another
\* webhook URL, the fallback switched off.
InitConfig ==
    /\ timers = <<>>
    /\ heap = <<>>
    /\ intervals = {}
    /\ nextId = 0
    /\ timerModalActive = FALSE
    /\ challengeModalActive = FALSE
    /\ shown = [workout |-> Null, challenge |-> Null]
    /\ ticks = <<>>
    /\ completions = <<>>
    /\ op = "init"
    /\ now = 0
    /\ emailjsLoaded \in BOOLEAN
    /\ permission = "default"
    /\ storedReminders = <<>>
    /\ storedText = ArrayText
    /\ prefs = <<>>
    /\ currentReminder = <<>>
    /\ jobs = EmptyBag
    /\ armed = EmptyBag
    /\ alerted = "none"
    /\ notified = "none"
    /\ formView = "form"
    /\ reminderModalActive = FALSE
    /\ submits = 0
    /\ startup = [threw |-> "none", announced |-> FALSE, escaped |-> FALSE,
                  listening |-> TRUE]
    /\ fallback \in Fallbacks
    /\ emailInput = <<>>
    /\ prefilled = FieldDefaults
    /\ ics = <<>>
    /\ otherArmed = EmptyBag
    /\ tally = [accepted |-> EmptyBag, sent |-> EmptyBag, future |-> EmptyBag]
    /\ display = LoadedDisplay
    /\ activeSection = "home"

Next ==
    \/ \E d \in Durations : startTimer(d) /\ UNCHANGED <<reminderVars, navVars>>
    \/ \E d \in Durations : startChallengeTimer(d) /\ UNCHANGED <<reminderVars, navVars>>
    \/ \E a \in {"start", "pause", "reset", "stop"} :
           handleTimerControl(a) /\ UNCHANGED <<reminderVars, navVars>>
    \/ \E a \in {"start", "pause", "reset"} :
           handleChallengeTimerControl(a) /\ UNCHANGED <<reminderVars, navVars>>
    \/ \E r \in intervals : Tick(r) /\ UNCHANGED <<reminderVars, navVars>>
    \/ ClickTimerClose /\ UNCHANGED <<reminderVars, navVars>>
    \/ ClickTimerBackdrop /\ UNCHANGED <<reminderVars, navVars>>
    \/ ClickChallengeClose /\ UNCHANGED <<reminderVars, navVars>>
    \/ ClickChallengeBackdrop /\ UNCHANGED <<reminderVars, navVars>>
    \/ PressEscape /\ UNCHANGED <<reminderVars, navVars>>

Spec == Init /\ [][Next]_vars

\* The timers started from the cards of the page. Time does not pass: the
\* durations are the ones getTimerDuration computes, in seconds.
CardsNext ==
    \/ \E card \in Cards : handleWorkoutStretchCard(card) /\ UNCHANGED <<reminderVars, navVars>>
    \/ \E a \in {"pause", "reset", "stop"} :
           handleTimerControl(a) /\ UNCHANGED <<reminderVars, navVars>>
    \/ ClickTimerClose /\ UNCHANGED <<reminderVars, navVars>>
    \/ ClickTimerBackdrop /\ UNCHANGED <<reminderVars, navVars>>
    \/ PressEscape /\ UNCHANGED <<reminderVars, navVars>>

SpecCards == Init /\ [][CardsNext]_vars

ReminderNext ==
    \/ \E f \in Forms :  \* the user submits the form while the modal shows it
           /\ reminderModalActive /\ formView = "form"
           /\ handleReminderSubmit(f) /\ UNCHANGED formFrame
    \/ \E job \in BagToSet(jobs), ok \in BOOLEAN :
           EmailJsSettles(job, ok) /\ UNCHANGED formFrame
    \/ \E job \in BagToSet(jobs), ok \in BOOLEAN, answer \in {"granted", "denied"} :
           WebhookSettles(job, ok, answer) /\ UNCHANGED formFrame
    \/ \E a \in BagToSet(armed) : DeferredFires(a) /\ UNCHANGED formFrame
    \/ ClockTick /\ UNCHANGED formFrame
    \/ openReminderModal /\ UNCHANGED formFrame
    \/ closeReminderModal /\ UNCHANGED formFrame
    \/ PageLoad

SpecReminder == InitReminder /\ [][ReminderNext]_vars

\* The reminder subsystem under each fallback configuration.
SpecConfig == InitConfig /\ [][ReminderNext]_vars

\* The same with the browser's timer scheduling: while the page is open, a
\* timeout whose delay has elapsed gets its callback run.
SpecReminderLive ==
    /\ InitReminder
    /\ [][ReminderNext]_vars
    /\ WF_vars(\E a \in BagToSet(armed) :
                   DeferredFires(a) /\ UNCHANGED formFrame)

SendsNext ==
    \/ \E f \in Forms :  \* the user submits the form while the modal shows it
           /\ reminderModalActive /\ formView = "form"
           /\ handleReminderSubmit(f) /\ UNCHANGED formFrame
    \/ \E job \in BagToSet(jobs), ok \in BOOLEAN :
           EmailJsSettles(job, ok) /\ UNCHANGED formFrame
    \/ \E job \in BagToSet(jobs), ok \in BOOLEAN, answer \in {"granted", "denied"} :
           WebhookSettles(job, ok, answer) /\ UNCHANGED formFrame
    \/ \E a \in BagToSet(armed) : DeferredFires(a) /\ UNCHANGED formFrame
    \/ ClockTick /\ UNCHANGED formFrame
    \/ openReminderModal /\ UNCHANGED formFrame
    \/ closeReminderModal /\ UNCHANGED formFrame
    \/ PageLoad
    \/ \E testEmail \in TestInputs : testEmailService(testEmail) /\ UNCHANGED formFrame

\* The reminder subsystem with page loads in which a step throws. The user's
\* events reach a handler only when the listeners were attached.
StartupNext ==
    \/ \E f \in Forms :
           /\ startup.listening
           /\ reminderModalActive /\ formView = "form"
           /\ handleReminderSubmit(f) /\ UNCHANGED formFrame
    \/ \E job \in BagToSet(jobs), ok \in BOOLEAN :
           EmailJsSettles(job, ok) /\ UNCHANGED formFrame
    \/ \E job \in BagToSet(jobs), ok \in BOOLEAN, answer \in {"granted", "denied"} :
           WebhookSettles(job, ok, answer) /\ UNCHANGED formFrame
    \/ \E a \in BagToSet(armed) : DeferredFires(a) /\ UNCHANGED formFrame
    \/ ClockTick /\ UNCHANGED formFrame
    \/ startup.listening /\ openReminderModal /\ UNCHANGED formFrame
    \/ startup.listening /\ closeReminderModal /\ UNCHANGED formFrame
    \/ PageLoad
    \/ \E i \in DOMAIN Steps : PageLoadThrows(Steps[i])

SpecStartup == InitReminder /\ [][StartupNext]_vars

\* The reminder subsystem with the test-email button.
SpecSends == InitReminder /\ [][SendsNext]_vars

\* Complete forms with each repeat, with and without notes, with a lead time
\* of 0 or 2 minutes and with a duration field that holds 45 or nothing.
CalendarForms ==
    [title : {<<"A">>}, email : {<<"a", "@", "b", ".", "c">>},
     date : {<<2>>}, time : {<<1>>}, duration : {NaN, 45},
     repeat : {"none", "daily", "weekly"}, notes : {<<>>, <<"n">>},
     reminderMinutes : {0, 2}, website : {<<>>}]

\* The success view and its download button, with no send settling and at
\* one time of the clock.
CalendarNext ==
    \/ \E f \in CalendarForms :
           /\ reminderModalActive /\ formView = "form"
           /\ handleReminderSubmit(f) /\ UNCHANGED formFrame
    \/ reminderModalActive /\ formView = "success" /\ downloadOutlookICS
    \/ openReminderModal /\ UNCHANGED formFrame
    \/ closeReminderModal /\ UNCHANGED formFrame
    \/ PageLoad

SpecCalendar == InitReminder /\ [][CalendarNext]_vars

\* What the second instance leaves alone, and what a step of this page leaves
\* alone when it is counted in the tally.
tabFrame == <<timerState, navVars, startup, fallback, emailInput, prefilled, ics, otherArmed>>

\* The complete forms, with either lead time.
TabForms ==
    FormsWith({<<"A">>}, {<<"a", "@", "b", ".", "c">>}, {<<2>>}, {<<1>>}, Leads, {<<>>})

\* Two instances of the page over one local storage. The user fills in the
\* form in this one; the other one is opened or reloaded and runs its
\* timeouts. The tally counts accepted submissions and reminder sends started.
TabsNext ==
    \/ \E f \in TabForms :
           /\ reminderModalActive /\ formView = "form"
           /\ handleReminderSubmit(f)
           /\ tally' = [tally EXCEPT !.accepted =
                            @ (+) SetToBag({[email |-> Trim(f.email), title |-> Trim(f.title),
                                             workoutDateTime |-> DateTime(f.date, f.time),
                                             duration |-> f.duration,
                                             notes |-> Trim(f.notes),
                                             reminderDateTime |->
                                                 DateTime(f.date, f.time)
                                                     - f.reminderMinutes]})]
           /\ UNCHANGED tabFrame
    \/ \E job \in BagToSet(jobs), ok \in BOOLEAN :
           EmailJsSettles(job, ok) /\ UNCHANGED formFrame
    \/ \E job \in BagToSet(jobs), ok \in BOOLEAN, answer \in {"granted", "denied"} :
           WebhookSettles(job, ok, answer) /\ UNCHANGED formFrame
    \/ \E a \in BagToSet(armed) :
           /\ DeferredFires(a)
           /\ tally' = [tally EXCEPT !.sent = @ (+) SetToBag({a.rec})]
           /\ UNCHANGED tabFrame
    \/ (\A a \in BagToSet(otherArmed) : a.due > now)
           /\ ClockTick /\ UNCHANGED formFrame
    \/ openReminderModal /\ UNCHANGED formFrame
    \/ closeReminderModal /\ UNCHANGED formFrame
    \/ PageLoad
    \/ OtherPageLoad
    \/ \E a \in BagToSet(otherArmed) : OtherDeferredFires(a)

SpecTabs == InitReminder /\ [][TabsNext]_vars

\* Three complete forms that differ in every field the stored record takes:
\* two with a workout after the last minute of the clock, one with a workout
\* whose reminder instant is the first minute.
OverlapForms ==
    {[title |-> <<"A">>, email |-> <<"a", "@", "b", ".", "c">>,
      date |-> <<MaxNow + 1>>, time |-> <<1>>, duration |-> 30, repeat |-> "none",
      notes |-> <<>>, reminderMinutes |-> 1, website |-> <<>>],
     [title |-> <<"B">>, email |-> <<"d", "@", "b", ".", "c">>,
      date |-> <<MaxNow + 2>>, time |-> <<1>>, duration |-> 45, repeat |-> "daily",
      notes |-> <<"n">>, reminderMinutes |-> 2, website |-> <<>>],
     [title |-> <<"C">>, email |-> <<"a", "@", "b", ".", "c">>,
      date |-> <<0>>, time |-> <<2>>, duration |-> 30, repeat |-> "none",
      notes |-> <<>>, reminderMinutes |-> 1, website |-> <<>>]}

\* One session of the page, without a reload: submissions that follow each
\* other while sends are in flight. The tally counts the accepted
\* submissions, those with the reminder instant ahead, and the reminder sends
\* started.
OverlapNext ==
    \/ \E f \in OverlapForms :
           /\ reminderModalActive /\ formView = "form"
           /\ handleReminderSubmit(f)
           /\ LET rec == [email |-> Trim(f.email), title |-> Trim(f.title),
                          workoutDateTime |-> DateTime(f.date, f.time),
                          duration |-> f.duration, notes |-> Trim(f.notes),
                          reminderDateTime |->
                              DateTime(f.date, f.time) - f.reminderMinutes]
              IN tally' = [tally EXCEPT
                               !.accepted = @ (+) SetToBag({rec}),
                               !.future = IF rec.reminderDateTime - now > 0
                                          THEN @ (+) SetToBag({rec}) ELSE @]
           /\ UNCHANGED tabFrame
    \/ \E job \in BagToSet(jobs), ok \in BOOLEAN :
           EmailJsSettles(job, ok) /\ UNCHANGED formFrame
    \/ \E job \in BagToSet(jobs), ok \in BOOLEAN, answer \in {"granted", "denied"} :
           WebhookSettles(job, ok, answer) /\ UNCHANGED formFrame
    \/ \E a \in BagToSet(armed) :
           /\ DeferredFires(a)
           /\ tally' = [tally EXCEPT !.sent = @ (+) SetToBag({a.rec})]
           /\ UNCHANGED tabFrame
    \/ ClockTick /\ UNCHANGED formFrame
    \/ openReminderModal /\ UNCHANGED formFrame
    \/ closeReminderModal /\ UNCHANGED formFrame

SpecOverlap == InitReminder /\ [][OverlapNext]_vars

\* One instance of the page at a time over the local storage: submissions,
\* sends, timeouts and reloads of this page, with the tally of accepted
\* submissions and of reminder sends started.
OneNext ==
    \/ \E f \in TabForms :
           /\ reminderModalActive /\ formView = "form"
           /\ handleReminderSubmit(f)
           /\ tally' = [tally EXCEPT !.accepted =
                            @ (+) SetToBag({[email |-> Trim(f.email), title |-> Trim(f.title),
                                             workoutDateTime |-> DateTime(f.date, f.time),
                                             duration |-> f.duration,
                                             notes |-> Trim(f.notes),
                                             reminderDateTime |->
                                                 DateTime(f.date, f.time)
                                                     - f.reminderMinutes]})]
           /\ UNCHANGED tabFrame
    \/ \E job \in BagToSet(jobs), ok \in BOOLEAN :
           EmailJsSettles(job, ok) /\ UNCHANGED formFrame
    \/ \E job \in BagToSet(jobs), ok \in BOOLEAN, answer \in {"granted", "denied"} :
           WebhookSettles(job, ok, answer) /\ UNCHANGED formFrame
    \/ \E a \in BagToSet(armed) :
           /\ DeferredFires(a)
           /\ tally' = [tally EXCEPT !.sent = @ (+) SetToBag({a.rec})]
           /\ UNCHANGED tabFrame
    \/ ClockTick /\ UNCHANGED formFrame
    \/ openReminderModal /\ UNCHANGED formFrame
    \/ closeReminderModal /\ UNCHANGED formFrame
    \/ PageLoad

SpecOne == InitReminder /\ [][OneNext]_vars

\* The page sections together with the cards: navigation links, the logo and
\* the back buttons, feature cards, number keys, and the workout cards with
\* the timer modal they open.
NavNext ==
    \/ \E target \in NavTargets : handleNavigation(target) /\ UNCHANGED reminderVars
    \/ ClickLogoOrBack /\ UNCHANGED reminderVars
    \/ \E index \in 0..4 : handleFeatureCard(index) /\ UNCHANGED reminderVars
    \/ \E key \in 1..5, inField \in BOOLEAN :
           PressNumberKey(key, inField) /\ UNCHANGED reminderVars
    \/ \E card \in Cards :
           handleWorkoutStretchCard(card) /\ UNCHANGED <<reminderVars, navVars>>
    \/ \E a \in {"pause", "reset", "stop"} :
           handleTimerControl(a) /\ UNCHANGED <<reminderVars, navVars>>
    \/ ClickTimerClose /\ UNCHANGED <<reminderVars, navVars>>
    \/ PressEscape /\ UNCHANGED <<reminderVars, navVars>>

SpecNav == Init /\ [][NavNext]_vars

\* One complete form.
CorruptForms ==
    FormsWith({<<"A">>}, {<<"a", "@", "b", ".", "c">>}, {<<2>>}, {<<1>>}, {1}, {<<>>})

\* The reminder subsystem over a storage whose scheduled-reminders value can
\* be overwritten with text that is no JSON array.
CorruptNext ==
    \/ \E f \in CorruptForms :
           /\ reminderModalActive /\ formView = "form"
           /\ handleReminderSubmit(f) /\ UNCHANGED formFrame
    \/ \E job \in BagToSet(jobs), ok \in BOOLEAN :
           EmailJsSettles(job, ok) /\ UNCHANGED formFrame
    \/ \E job \in BagToSet(jobs), ok \in BOOLEAN, answer \in {"granted", "denied"} :
           WebhookSettles(job, ok, answer) /\ UNCHANGED formFrame
    \/ \E a \in BagToSet(armed) : DeferredFires(a) /\ UNCHANGED formFrame
    \/ ClockTick /\ UNCHANGED formFrame
    \/ openReminderModal /\ UNCHANGED formFrame
    \/ closeReminderModal /\ UNCHANGED formFrame
    \/ PageLoad
    \/ \E text \in CorruptTexts : StorageOverwritten(text) /\ UNCHANGED formFrame

SpecCorrupt == InitReminder /\ [][CorruptNext]_vars

\* The form is submitted with the text the user has typed as email, the
\* other fields filled in; no send settles.
EmailNext ==
    \/ /\ reminderModalActive /\ formView = "form"
       /\ handleReminderSubmit(FormWithEmail(emailInput)) /\ UNCHANGED formFrame
    \/ openReminderModal /\ UNCHANGED formFrame
    \/ closeReminderModal /\ UNCHANGED formFrame
    \/ PageLoad

SpecEmail == InitEmail /\ [][EmailNext]_vars

\* Complete forms with the values the handler does not validate: a duration
\* field that is empty (parseInt gives NaN), 0 or 45, each repeat, a lead time
\* of 0 or 2 minutes.
PrefForms ==
    [title : {<<"A">>, <<" ", "B">>}, email : {<<"a", "@", "b", ".", "c">>},
     date : {<<2>>}, time : {<<1>>}, duration : {NaN, 0, 45},
     repeat : {"none", "daily", "weekly"}, notes : {<<>>},
     reminderMinutes : {0, 2}, website : {<<>>}]

\* Saving the preferences and loading them: submissions and page loads, with
\* no send settling in between.
PrefsNext ==
    \/ \E f \in PrefForms :
           /\ reminderModalActive /\ formView = "form"
           /\ handleReminderSubmit(f) /\ UNCHANGED formFrame
    \/ openReminderModal /\ UNCHANGED formFrame
    \/ closeReminderModal /\ UNCHANGED formFrame
    \/ PageLoad

SpecPrefs == InitReminder /\ [][PrefsNext]_vars

\* ------------------------------------------------------------------ claims
Controls == {"start", "pause", "reset"}

\* The timer a control step resolved, whichever handler took the step.
Resolved(a, t) ==
    \/ handleTimerControl(a) /\ t = activeTimer
    \/ a # "stop" /\ handleChallengeTimerControl(a) /\ t = activeChallengeTimer

LiveFor(ivs, t) == {r \in ivs : r.t = t}

Paused(h, ivs, t) == ~h[t].isRunning /\ h[t].interval = Null /\ LiveFor(ivs, t) = {}

\* C1: a start of duration D creates a timer with remaining = D that is not
\* running, and a timer that has taken N <= D ticks since it was created (or
\* last reset), with any pauses and resumes in between, has remaining = D - N.
C1_StartThenCountDown ==
    [][ /\ \A d \in Durations :
              (startTimer(d) \/ startChallengeTimer(d)) =>
                  /\ nextId' \in Range(timers')
                  /\ heap'[nextId'].duration = d
                  /\ heap'[nextId'].remaining = d
                  /\ Paused(heap', intervals', nextId')
        /\ \A t \in DOMAIN heap' :
              ticks'[t] <= heap'[t].duration =>
                  heap'[t].remaining = heap'[t].duration - ticks'[t]
      ]_vars

\* C1 witness: a timer that was paused part-way, resumed and ticked again.
C1_Witness ==
    \E t \in DOMAIN heap :
        /\ ticks[t] = 2 /\ heap[t].duration = 2 /\ heap[t].remaining = 0
        /\ op = "tick"

\* C2: every timer's remaining stays within 0..duration.
C2_RemainingInRange ==
    \A t \in DOMAIN heap : 0 <= heap[t].remaining /\ heap[t].remaining <= heap[t].duration

\* C3: between two resets a timer fires its completion notification at most once.
C3_CompletionOnce ==
    \A t \in DOMAIN heap : completions[t] <= 1

\* C4: the tick that brings remaining to zero pauses the timer (flag down,
\* handle cleared, no live interval left for it) and fires one completion.
C4_AutoPauseOnZero ==
    [][ \A r \in intervals :
            (Tick(r) /\ heap'[r.t].remaining = 0) =>
                /\ Paused(heap', intervals', r.t)
                /\ completions'[r.t] = completions[r.t] + 1
      ]_vars

\* C4 witness: a timer that has just counted down to zero.
C4_Witness ==
    \E t \in DOMAIN heap :
        /\ op = "tick" /\ heap[t].remaining = 0 /\ heap[t].duration > 0
        /\ completions[t] = 1 /\ ~heap[t].isRunning

\* C5: while a timer modal is open, its controls resolve the timer that the
\* last start of that kind created and showed.
C5_ControlsActOnShownTimer ==
    /\ timerModalActive => activeTimer = shown.workout
    /\ challengeModalActive => activeChallengeTimer = shown.challenge

\* C6: at most one workout timer and at most one challenge timer is running.
C6_OneRunningPerKind ==
    \A k \in BOOLEAN :
        Cardinality({t \in DOMAIN heap :
                        heap[t].isRunning /\ heap[t].isChallenge = k}) <= 1

\* C6 witness: the start control pressed with two timers of one kind in the
\* collection and the newer one shown: one of them runs, the other does not.
C6_Witness ==
    \E t, u \in Range(timers) :
        /\ t # u /\ heap[t].isChallenge = heap[u].isChallenge
        /\ heap[t].isRunning /\ ~heap[u].isRunning
        /\ op = "resume" /\ u \in {shown.workout, shown.challenge}

\* C7: reset leaves the resolved timer at remaining = duration, paused, with no
\* interval, whatever its state before.
C7_ResetRestores ==
    [][ \A t \in Range(timers) :
            Resolved("reset", t) =>
                /\ heap'[t].remaining = heap[t].duration
                /\ heap'[t].duration = heap[t].duration
                /\ Paused(heap', intervals', t)
      ]_vars

\* C7 witness: a reset has just acted on a timer of positive duration.
C7_Witness ==
    \E t \in Range(timers) :
        /\ op = "reset" /\ heap[t].duration = 2 /\ heap[t].remaining = 2
        /\ ticks[t] = 0 /\ intervals = {} /\ Len(timers) = 1

\* C8: pause clears the interval of a running timer; a tick only ever touches
\* the one running timer its interval belongs to; resume on a running timer and
\* pause on a paused timer change nothing.
C8_PauseStopsTicks ==
    [][ /\ \A t \in Range(timers) :
              (Resolved("pause", t) /\ heap[t].isRunning) =>
                  /\ Paused(heap', intervals', t)
                  /\ heap'[t].remaining = heap[t].remaining
        /\ \A r \in intervals :
              Tick(r) => /\ heap[r.t].isRunning
                         /\ \A u \in DOMAIN heap \ {r.t} : heap'[u] = heap[u]
        /\ \A t \in Range(timers) :
              \/ Resolved("start", t) /\ heap[t].isRunning
              \/ Resolved("pause", t) /\ ~heap[t].isRunning
              => UNCHANGED <<timers, heap, intervals, ticks, completions>>
      ]_vars

\* C8 witness: a timer paused part-way by the pause control.
C8_Witness ==
    \E t \in Range(timers) :
        /\ op = "pause" /\ ticks[t] = 1 /\ heap[t].remaining = 1
        /\ Paused(heap, intervals, t)

\* The modal a timer is shown in.
ModalActiveOf(t, workoutModal, challengeModal) ==
    IF heap[t].isChallenge THEN challengeModal ELSE workoutModal

\* C9: stop removes the resolved timer from the collection, closes its modal
\* and clears its interval, and no live interval belongs to a timer outside
\* the collection.
C9_StopRemovesAndCloses ==
    [][ /\ \A t \in Range(timers) :
              (handleTimerControl("stop") /\ t = activeTimer) =>
                  /\ t \notin Range(timers')
                  /\ LiveFor(intervals', t) = {}
                  /\ ~ModalActiveOf(t, timerModalActive', challengeModalActive')
        /\ \A r \in intervals' : r.t \in Range(timers')
      ]_vars

\* The part of C9 that does not depend on which modal is closed: stop removes
\* the resolved timer, closes the workout timer modal and leaves no live
\* interval behind for a timer outside the collection.
StopClearsInterval ==
    [][ /\ \A t \in Range(timers) :
              (handleTimerControl("stop") /\ t = activeTimer) =>
                  /\ t \notin Range(timers')
                  /\ LiveFor(intervals', t) = {}
                  /\ ~timerModalActive'
        /\ \A r \in intervals' : r.t \in Range(timers')
      ]_vars

\* A string of nothing but white space, the empty string included.
Blank(str) == \A k \in 1..Len(str) : str[k] = " "

\* A required field (title, email, date, time) of the form holds nothing.
EmptyRequired(f) ==
    Blank(f.title) \/ Blank(f.email) \/ f.date = <<>> \/ f.time = <<>>

\* The places of character c in str.
Places(str, c) == {k \in 1..Len(str) : str[k] = c}

\* An address, taken without the white space around it, that is not of the
\* shape local@domain.tld: white space inside, no "@" or more than one, nothing
\* before the "@", or no "." after it with something on both sides.
MalformedEmail(str) ==
    LET t == Trim(str)
    IN \/ Places(t, " ") # {}
       \/ Cardinality(Places(t, "@")) # 1
       \/ \E p \in Places(t, "@") :
              \/ p = 1
              \/ ~\E j \in Places(t, ".") : p + 1 < j /\ j < Len(t)

\* Form f has an empty required field or a malformed email.
Invalid(f) == EmptyRequired(f) \/ MalformedEmail(f.email)

\* The submission is rejected and leaves everything but the dialog as it was.
NoSubmissionEffect ==
    UNCHANGED <<storedReminders, storedText, jobs, armed, prefs, currentReminder, formView>>

\* C10 (as stated): submitting a form with an empty required field or a
\* malformed email shows an alert and has no other effect: no stored record, no
\* send in flight, no deferred send, preferences unchanged.
C10_InvalidAlwaysAlerts ==
    [][submits' # submits =>
          \A f \in Forms :
              handleReminderSubmit(f) /\ Invalid(f)
                  => alerted' \in {"required", "email"} /\ NoSubmissionEffect]_vars

\* C10 (amended): with the honeypot field empty, submitting a form with an
\* empty required field or a malformed email shows an alert and has no other
\* effect; with the honeypot field filled such a form has no effect either, but
\* no alert is shown.
C10_InvalidRejected ==
    [][submits' # submits =>
          \A f \in Forms :
              handleReminderSubmit(f) /\ Invalid(f)
                  => /\ NoSubmissionEffect
                     /\ f.website = <<>> => alerted' \in {"required", "email"}
                     /\ f.website # <<>> => alerted' = "none"]_vars

\* C10 witness: after an accepted submission whose record is stored, a
\* resubmission has just been rejected with the email alert; one record is stored
\* and nothing is in flight.
C10_Witness ==
    /\ alerted = "email"
    /\ submits = 2
    /\ Len(storedReminders) = 1
    /\ jobs = EmptyBag
    /\ prefs # <<>>

\* The confirmation send of an accepted submission returns in this step.
ConfirmationReturns(job) ==
    /\ BagIn(job, jobs)
    /\ job.kind = "confirmation"
    /\ op' \in {"emailjs", "webhook"}
    /\ jobs' = jobs (-) SetToBag({job})

\* C11: when the confirmation send has completed and the reminder instant is
\* not after the current time, nothing is scheduled (no deferred send armed, no
\* record stored) and the past-time warning is shown.
C11_PastNeverScheduled ==
    [][\A job \in BagToSet(jobs) :
          ConfirmationReturns(job) /\ job.rec.reminderDateTime <= now
              => /\ armed' = armed
                 /\ storedReminders' = storedReminders
                 /\ alerted' = "past"]_vars

\* What holds of C11: the instant is compared with the time read before the
\* confirmation send was started (2189), and an instant not after that time is
\* never scheduled.
PastAtSubmitNeverScheduled ==
    [][\A job \in BagToSet(jobs) :
          ConfirmationReturns(job) /\ job.rec.reminderDateTime <= job.now0
              => /\ armed' = armed
                 /\ storedReminders' = storedReminders
                 /\ alerted' = "past"]_vars

\* The number of places of record r in the array.
Occurrences(stored, r) == Cardinality({i \in DOMAIN stored : stored[i] = r})

\* The number of pending timeouts that will send for record r.
ArmedFor(bag, r) ==
    LET for == {a \in BagToSet(bag) : a.rec = r}
        RECURSIVE Sum(_)
        Sum(S) == IF S = {} THEN 0
                  ELSE LET a == CHOOSE x \in S : TRUE
                       IN CopiesIn(a, bag) + Sum(S \ {a})
    IN Sum(for)

\* C12: a page load keeps in storage exactly the records whose
\* reminder instant is still in the future and arms one deferred send for each
\* of them, due at its instant; records whose instant has passed are removed
\* and nothing is armed for them.
C12_LoadRearmsFutureOnly ==
    [][op' = "init" =>
          /\ \A r \in Range(storedReminders) :
                 /\ r.reminderDateTime > now =>
                        /\ Occurrences(storedReminders', r) = Occurrences(storedReminders, r)
                        /\ ArmedFor(armed', r) = Occurrences(storedReminders, r)
                 /\ r.reminderDateTime <= now =>
                        /\ Occurrences(storedReminders', r) = 0
                        /\ ArmedFor(armed', r) = 0
          /\ Range(storedReminders') \subseteq Range(storedReminders)
          /\ \A a \in BagToSet(armed') :
                 a.rec \in Range(storedReminders') /\ a.due = a.rec.reminderDateTime]_vars

\* C12 witness: a page has just been loaded at a time when one stored record
\* was still ahead; it is in storage and one deferred send is armed for it.
C12_Witness ==
    /\ op = "init"
    /\ now >= 1
    /\ Len(storedReminders) = 1
    /\ ArmedFor(armed, storedReminders[1]) = 1
    /\ storedReminders[1].reminderDateTime > now

\* One deferred send for the record of `job` is armed and the record is
\* appended to the stored array, whose other records stay as they were.
ScheduledOnce(job) ==
    /\ \E a \in BagToSet(armed') :
           a.rec = job.rec /\ armed' = armed (+) SetToBag({a})
    /\ storedReminders' = Append(storedReminders, job.rec)

\* A step of the page (not a page load, not a timeout firing) that arms a
\* deferred send or changes the stored array.
Schedules ==
    /\ op' \notin {"init", "timeout"}
    /\ armed' # armed \/ storedReminders' # storedReminders

\* An accepted submission starts its confirmation send and schedules nothing.
AcceptedStartsConfirmation ==
    op' = "submit" /\ formView' = "success"
        => /\ \E job \in BagToSet(jobs') :
                  /\ job.kind = "confirmation"
                  /\ jobs' = jobs (+) SetToBag({job})
           /\ armed' = armed
           /\ storedReminders' = storedReminders

\* C13: an accepted submission starts with the confirmation send, whatever the
\* reminder instant; a deferred send is armed and a record stored only when a
\* confirmation send returns, only if the reminder instant is then in the
\* future, and then exactly one of each, the stored records before it unchanged.
C13_ConfirmationThenSchedule ==
    [][/\ AcceptedStartsConfirmation
       /\ Schedules =>
              \E job \in BagToSet(jobs) :
                  /\ ConfirmationReturns(job)
                  /\ job.rec.reminderDateTime > now
                  /\ ScheduledOnce(job)
       /\ \A job \in BagToSet(jobs) :
              ConfirmationReturns(job) /\ job.rec.reminderDateTime > now
                  => ScheduledOnce(job)]_vars

\* What holds of C13: the same with the reminder instant compared with the
\* time at which the form was submitted.
ScheduleAfterConfirmation ==
    [][/\ AcceptedStartsConfirmation
       /\ Schedules =>
              \E job \in BagToSet(jobs) :
                  /\ ConfirmationReturns(job)
                  /\ job.rec.reminderDateTime > job.now0
                  /\ ScheduledOnce(job)
       /\ \A job \in BagToSet(jobs) :
              ConfirmationReturns(job) /\ job.rec.reminderDateTime > job.now0
                  => ScheduledOnce(job)]_vars

\* C14: a submission with the honeypot field filled, whatever the other fields
\* hold, shows no alert and no notification, starts no send, arms no deferred
\* send, writes nothing to local storage, and leaves the modal on the form view.
C14_HoneypotIgnored ==
    [][submits' # submits =>
          \A f \in Forms :
              handleReminderSubmit(f) /\ f.website # <<>>
                  => /\ alerted' = "none" /\ notified' = "none"
                     /\ jobs' = jobs /\ armed' = armed
                     /\ storedReminders' = storedReminders /\ prefs' = prefs
                     /\ formView' = "form" /\ reminderModalActive'
                     /\ currentReminder' = currentReminder]_vars

\* C14 witness: the submit handler has just run on the first visit and has
\* left no trace: no alert, the form view still shown, nothing saved or sent.
C14_Witness ==
    /\ op = "submit"
    /\ alerted = "none"
    /\ formView = "form"
    /\ reminderModalActive
    /\ prefs = <<>>
    /\ jobs = EmptyBag
    /\ storedReminders = <<>>

\* A send is started in this step: one more job of these fields is in flight
\* and nothing else about the jobs has changed.
Started(job) == jobs' = jobs (+) SetToBag({job})

\* The send `job` ends in this step and returns to the code that awaits it.
Returns(job) ==
    /\ BagIn(job, jobs)
    /\ jobs' = jobs (-) SetToBag({job})

\* The code after the await of `job` has run: the scheduling decision after a
\* confirmation, nothing after a reminder.
Continued(job) ==
    IF job.kind = "confirmation"
    THEN ScheduledOnce(job) \/ (alerted' = "past" /\ armed' = armed)
    ELSE armed' = armed /\ storedReminders' = storedReminders

FailureMessages == {"test failed"}

\* C16: when the webhook call of a send fails and no notification can be shown
\* either (all tiers have failed), the user is told; and the user is told of a
\* failure in no other case, so not when the email API has failed and the
\* webhook takes over, and not when the notification is shown.
C16_OnlyFinalFailureSurfaces ==
    [][/\ notified' = "blocked" => alerted' \in FailureMessages
       /\ alerted' \in FailureMessages => notified' = "blocked"]_vars

\* A deferred send whose delay has elapsed is pending.
DuePending == \E a \in BagToSet(armed) : a.due <= now

\* C17: a pending deferred send goes away only by firing (or with the page,
\* when it is loaded again), whatever handler runs; and while one is pending
\* with its delay elapsed, a deferred send fires (unless the page is loaded again).
C17_ArmedSendFires ==
    /\ [][\A a \in BagToSet(armed) :
             CopiesIn(a, armed') < CopiesIn(a, armed)
                 => \/ op' = "init"
                    \/ /\ op' = "timeout"
                       /\ a.due <= now
                       /\ armed' = armed (-) SetToBag({a})
                       /\ \E job \in BagToSet(jobs') :
                              /\ job.kind = "reminder" /\ job.rec = a.rec
                              /\ Started(job)]_vars
    /\ DuePending ~> (op = "timeout" \/ op = "init")

\* C17 witness: after a second submit event and with the reminder modal closed
\* again, a deferred send has just fired and its reminder send is in flight.
C17_Witness ==
    /\ op = "timeout"
    /\ submits = 2
    /\ ~reminderModalActive
    /\ \E job \in BagToSet(jobs) : job.kind = "reminder"

\* C18: when the deferred send of a record fires, the record leaves the stored
\* array (one place of it for the one send that has fired).
C18_FiredRecordRemoved ==
    [][op' = "timeout" =>
          \A a \in BagToSet(armed) :
              CopiesIn(a, armed') < CopiesIn(a, armed)
                  => Occurrences(storedReminders', a.rec)
                         < Occurrences(storedReminders, a.rec)]_vars

\* What holds of C18: a record whose instant has passed is out of the array
\* after the next page load.
PassedRecordsGoneAfterLoad ==
    op = "init" => \A r \in Range(storedReminders) : r.reminderDateTime > now

\* The send started by an accepted submission of form f carries the reminder
\* instant of the form: its date and time less its lead minutes.
CarriesReminderInstant(f) ==
    handleReminderSubmit(f) /\ formView' = "success"
        => \E job \in BagToSet(jobs') :
               /\ Started(job)
               /\ job.rec.workoutDateTime = DateTime(f.date, f.time)
               /\ job.rec.reminderDateTime
                      = DateTime(f.date, f.time) - f.reminderMinutes

\* C19: the deferred send of an accepted submission is armed with the delay
\* from the time of arming to the reminder instant (workout instant less lead
\* minutes), so that it is due at that instant, and the record stored with it
\* carries that instant.
C19_ArmedForReminderInstant ==
    [][/\ submits' # submits => \A f \in Forms : CarriesReminderInstant(f)
       /\ \A job \in BagToSet(jobs) :
              ConfirmationReturns(job) /\ armed' # armed
                  => /\ armed' = armed (+) SetToBag({[rec |-> job.rec,
                                                      due |-> job.rec.reminderDateTime]})
                     /\ storedReminders' = Append(storedReminders, job.rec)]_vars

\* What holds of C19: the delay is the one from the time at which the form was
\* submitted, so the send is due later than the instant by the time the
\* confirmation send has taken; the stored record carries the instant.
ArmedWithDelayFromSubmission ==
    [][/\ submits' # submits => \A f \in Forms : CarriesReminderInstant(f)
       /\ \A job \in BagToSet(jobs) :
              ConfirmationReturns(job) /\ armed' # armed
                  => /\ armed' = armed (+) SetToBag({[rec |-> job.rec,
                            due |-> now + (job.rec.reminderDateTime - job.now0)]})
                     /\ storedReminders' = Append(storedReminders, job.rec)]_vars

\* C20: when a step of a page load throws, the exception is caught and the
\* error announcement is made, and the exception does not leave the constructor.
C20_StartupExceptionCaught ==
    startup.threw # "none" => startup.announced /\ ~startup.escaped

\* What holds of C20: the same for the steps that init runs.
InitExceptionCaught ==
    startup.threw \notin {"none", "initEmailJS"}
        => startup.announced /\ ~startup.escaped

\* C22: a timer leaves the collection only through stop: every other step
\* (start, resume, pause, reset, a tick with or without completion, closing
\* either modal by any route) keeps every timer of the collection in it, and
\* every step but a start or a stop leaves the collection as it was.
C22_OnlyStopRemoves ==
    [][ \/ handleTimerControl("stop")
        \/ /\ \A t \in Range(timers) : t \in Range(timers')
           /\ (\E d \in Durations : startTimer(d) \/ startChallengeTimer(d))
                  \/ timers' = timers
      ]_vars

\* C22 witness: a timer that ran to completion is still in the collection
\* after a second timer was started and the modal was closed.
C22_Witness ==
    /\ op = "close"
    /\ Len(timers) = 2
    /\ completions[timers[1]] > 0
    /\ ~timerModalActive /\ ~challengeModalActive

\* The timers of one kind, and what a close step may do to a timer.
OfKind(challenge) == {t \in Range(timers) : heap[t].isChallenge = challenge}

Untouched(t) ==
    /\ heap'[t].isRunning = heap[t].isRunning
    /\ heap'[t].remaining = heap[t].remaining

\* The routes by which one modal is closed while the other is not open.
ClosesTimerModal ==
    ClickTimerClose \/ ClickTimerBackdrop
        \/ (PressEscape /\ timerModalActive /\ ~challengeModalActive)

ClosesChallengeModal ==
    ClickChallengeClose \/ ClickChallengeBackdrop
        \/ (PressEscape /\ challengeModalActive /\ ~timerModalActive)

\* C28: closing the workout timer modal, by its close button, a backdrop click
\* or Escape, pauses every workout timer and leaves isRunning and remaining of
\* every challenge timer as they were; closing the challenge timer modal by
\* any of its routes pauses every challenge timer and leaves the workout
\* timers as they were.
C28_CloseTouchesOwnKind ==
    [][ /\ ClosesTimerModal =>
              /\ \A t \in OfKind(FALSE) : Paused(heap', intervals', t)
              /\ \A t \in OfKind(TRUE) : Untouched(t)
        /\ ClosesChallengeModal =>
              /\ \A t \in OfKind(TRUE) : Paused(heap', intervals', t)
              /\ \A t \in OfKind(FALSE) : Untouched(t)
      ]_vars

\* What holds of C28: every route that closes the workout timer modal pauses
\* the timers of both kinds; the challenge modal's close button pauses the
\* challenge timers and leaves the workout timers alone; a backdrop click on
\* the challenge modal, or Escape, pauses no timer at all.
CloseRoutesPause ==
    [][ /\ ClosesTimerModal =>
              \A t \in Range(timers) : Paused(heap', intervals', t)
        /\ ClickChallengeClose =>
              /\ \A t \in OfKind(TRUE) : Paused(heap', intervals', t)
              /\ \A t \in OfKind(FALSE) : Untouched(t)
        /\ (ClickChallengeBackdrop
               \/ (PressEscape /\ challengeModalActive /\ ~timerModalActive)) =>
              \A t \in Range(timers) : Untouched(t) /\ intervals' = intervals
      ]_vars

\* C29: whenever the workout timer modal is not active, no workout timer is
\* running and none has a live interval.
C29_ClosedModalNoWorkoutRunning ==
    ~timerModalActive =>
        \A t \in DOMAIN heap :
            ~heap[t].isChallenge => Paused(heap, intervals, t)

\* C29 witness: a workout timer that was running and ticked is in the
\* collection, paused, after its modal was closed.
C29_Witness ==
    /\ ~timerModalActive
    /\ op = "close"
    /\ \E t \in OfKind(FALSE) :
           /\ ticks[t] > 0 /\ heap[t].remaining > 0
           /\ Paused(heap, intervals, t)

\* C30: whenever the challenge timer modal is not active, no challenge timer
\* is running and none has a live interval, so that none ticks or completes.
C30_ClosedModalNoChallengeRunning ==
    ~challengeModalActive =>
        \A t \in DOMAIN heap :
            heap[t].isChallenge => Paused(heap, intervals, t)

\* What holds of C30: the challenge modal's close button leaves every
\* challenge timer paused.
ChallengeCloseButtonPauses ==
    [][ ClickChallengeClose =>
            \A t \in OfKind(TRUE) : Paused(heap', intervals', t) ]_vars

\* The duration by the rule: the attribute when the card has it, else the
\* "N min" text, else 300 seconds.
RuleDuration(card) ==
    IF card.dataDuration # <<>> THEN 60 * Decimal(card.dataDuration[1])
    ELSE IF card.durationText # <<>> /\ MatchMin(card.durationText[1]) # <<>>
    THEN 60 * Decimal(MatchMin(card.durationText[1])[1])
    ELSE 300

Remembered(cur) ==
    [title |-> cur.title, email |-> cur.email, duration |-> cur.duration,
     repeat |-> cur.repeat, reminderMinutes |-> cur.reminderMinutes]

\* C23: the page load that follows an accepted submission fills title, email,
\* duration, repeat and lead minutes with exactly the values of that
\* submission, whatever values the handler accepted.
C23_PrefsRoundTrip ==
    [][ (PageLoad /\ currentReminder # <<>>)
            => prefilled' = Remembered(currentReminder[1]) ]_vars

\* What holds of C23: the round trip for the submissions whose duration and
\* lead minutes are numbers other than 0; a duration or lead time of 0, and
\* a duration that is not a number, leave the field at its default.
TruthyPrefsRoundTrip ==
    [][ (PageLoad /\ currentReminder # <<>>) =>
            LET cur == currentReminder[1] IN
            /\ prefilled'.title = cur.title
            /\ prefilled'.email = cur.email
            /\ prefilled'.repeat = cur.repeat
            /\ prefilled'.duration =
                   IF Truthy(cur.duration) THEN cur.duration
                                           ELSE FieldDefaults.duration
            /\ prefilled'.reminderMinutes =
                   IF Truthy(cur.reminderMinutes) THEN cur.reminderMinutes
                                                  ELSE FieldDefaults.reminderMinutes
      ]_vars

\* C26: a send is in its webhook tier only when the configuration's
\* fallback.enabled is true, and its fetch posts to the configuration's
\* fallback.webhookUrl.
C26_WebhookFollowsConfig ==
    \A job \in BagToSet(jobs) :
        job.tier = "webhook" =>
            /\ fallback.enabled
            /\ fetchUrl(job) = fallback.webhookUrl

\* What holds of C26: under the configuration as shipped (fallback enabled,
\* the URL that the code posts to) the webhook tier agrees with it.
WebhookAgreesWithShippedConfig ==
    fallback = [webhookUrl |-> FormspreeUrl, enabled |-> TRUE]
        => C26_WebhookFollowsConfig

\* The record scheduleEmailReminder stores for a submission (2208-2211).
RecordOf(cur) ==
    [email |-> cur.email, title |-> cur.title,
     workoutDateTime |-> DateTime(cur.date, cur.time), duration |-> cur.duration,
     notes |-> cur.notes,
     reminderDateTime |-> DateTime(cur.date, cur.time) - cur.reminderMinutes]

\* The page is reloaded while it shows the success view of a submission whose
\* reminder instant is still ahead.
ReloadBeforeInstant(rec) ==
    /\ PageLoad
    /\ formView = "success"
    /\ currentReminder # <<>>
    /\ rec = RecordOf(currentReminder[1])
    /\ rec.reminderDateTime > now

Survives(rec) ==
    /\ rec \in Range(storedReminders')
    /\ \E a \in BagToSet(armed') : a.rec = rec

\* C27: a reload at any moment between the success view of an accepted
\* submission and its reminder instant finds the submission's record in
\* local storage and arms its deferred send again.
C27_SuccessSurvivesReload ==
    [][ currentReminder # <<>> =>
            LET rec == RecordOf(currentReminder[1]) IN
            ReloadBeforeInstant(rec) => Survives(rec) ]_vars

\* What holds of C27: the same once the confirmation send of the submission
\* has returned; the record is stored only then.
StoredOnceConfirmationReturned ==
    [][ currentReminder # <<>> =>
            LET rec == RecordOf(currentReminder[1]) IN
            (/\ ReloadBeforeInstant(rec)
             /\ \A job \in BagToSet(jobs) :
                    ~(job.kind = "confirmation" /\ job.rec = rec))
            => Survives(rec) ]_vars

\* C21: with two instances of the page open over the same local storage, the
\* reminder sends started for a record, in both instances together, are no
\* more than the accepted submissions of that record.
C21_OneSendPerSubmission ==
    \A rec \in BagToSet(tally.sent) :
        CopiesIn(rec, tally.sent) <= CopiesIn(rec, tally.accepted)

\* The places of the lines NAME:value, and of the lines NAME:..., in a file.
LinesOf(file, name, value) ==
    {i \in DOMAIN file : file[i].name = name /\ file[i].value = value}

Named(file, name) == {i \in DOMAIN file : file[i].name = name}

\* The one line NAME:... of a file that has exactly one.
TheLine(file, name) == file[CHOOSE i \in Named(file, name) : TRUE]

\* The file holds one event, and inside it one alarm.
OneEventOneAlarm(file) ==
    /\ Cardinality(LinesOf(file, "BEGIN", "VEVENT")) = 1
    /\ Cardinality(LinesOf(file, "END", "VEVENT")) = 1
    /\ Cardinality(LinesOf(file, "BEGIN", "VALARM")) = 1
    /\ Cardinality(LinesOf(file, "END", "VALARM")) = 1
    /\ \A e \in LinesOf(file, "BEGIN", "VEVENT"), a \in LinesOf(file, "BEGIN", "VALARM"),
          b \in LinesOf(file, "END", "VALARM"), f \in LinesOf(file, "END", "VEVENT") :
              e < a /\ a < b /\ b < f

C31_ControlsOwnKind ==
    [][ \A a \in Controls :
            /\ handleTimerControl(a) => \A t \in OfKind(TRUE) : Untouched(t)
            /\ handleChallengeTimerControl(a) => \A t \in OfKind(FALSE) : Untouched(t)
      ]_vars

\* What holds of C31: the challenge timer controls leave the workout timers
\* as they were; the workout controls act on the first timer of the
\* collection that runs or, with the modal open, on the first one of all.
ChallengeControlsOwnKind ==
    [][ \A a \in Controls :
            /\ handleChallengeTimerControl(a) => \A t \in OfKind(FALSE) : Untouched(t)
            /\ handleTimerControl(a) =>
                   \A t \in Range(timers) \ {activeTimer} : Untouched(t)
      ]_vars

\* C32: a timer is running exactly when it has a live interval, which is the
\* one its interval field holds; no timer has more than one live interval;
\* and a firing of an interval takes exactly one second off its timer,
\* whichever of the two sets of controls resumed or paused the timer.
C32_RunningIffOneInterval ==
    /\ [](\A t \in DOMAIN heap :
             /\ heap[t].isRunning <=> LiveFor(intervals, t) # {}
             /\ Cardinality(LiveFor(intervals, t)) <= 1
             /\ \A r \in LiveFor(intervals, t) : heap[t].interval = r.h
             /\ ~heap[t].isRunning => heap[t].interval = Null)
    /\ [][ \A r \in intervals :
               Tick(r) => heap'[r.t].remaining = heap[r.t].remaining - 1 ]_vars

\* C32 witness: a challenge timer that the workout controls resumed has
\* ticked and is addressed by a start control again while it runs.
C32_Witness ==
    /\ op = "resume"
    /\ challengeModalActive /\ timerModalActive
    /\ \E r \in intervals :
           /\ r.cb = "workout"
           /\ heap[r.t].isChallenge /\ heap[r.t].isRunning
           /\ ticks[r.t] = 1
           /\ activeTimer = r.t /\ activeChallengeTimer = r.t

\* A confirmation send is in flight.
ConfirmationPending == \E job \in BagToSet(jobs) : job.kind = "confirmation"

\* C33: with submissions that overlap each other's confirmation send, every
\* stored record and every deferred send is that of an accepted submission
\* whose reminder instant was ahead, no more often than it was submitted; and
\* once no confirmation send is pending, each such submission has exactly one
\* stored record and one deferred send (armed or already fired).
C33_OverlapKeepsOwnData ==
    LET recs == Range(storedReminders) \cup {a.rec : a \in BagToSet(armed)}
                    \cup BagToSet(tally.future) \cup BagToSet(tally.sent)
    IN \A rec \in recs :
           /\ Occurrences(storedReminders, rec) <= CopiesIn(rec, tally.future)
           /\ ArmedFor(armed, rec) + CopiesIn(rec, tally.sent)
                  <= CopiesIn(rec, tally.future)
           /\ ~ConfirmationPending =>
                  /\ Occurrences(storedReminders, rec) = CopiesIn(rec, tally.future)
                  /\ ArmedFor(armed, rec) + CopiesIn(rec, tally.sent)
                         = CopiesIn(rec, tally.future)

\* C33 witness: both confirmation sends have completed, the one of the
\* second submission first, and the array holds the two records, which differ.
C33_Witness ==
    /\ ~ConfirmationPending
    /\ Len(storedReminders) = 2
    /\ currentReminder # <<>>
    /\ storedReminders[1] = RecordOf(currentReminder[1])
    /\ storedReminders[2] # storedReminders[1]
    /\ storedReminders[2].email # storedReminders[1].email
    /\ ArmedFor(armed, storedReminders[2]) = 1

Visible == {s \in Sections : display[s] = "block"}

\* C35: in every state exactly one section is displayed, and it is the one
\* this.activeSection names.
C35_OneVisibleSection == Visible = {activeSection}

\* What holds of C35: a request for a section that exists ends with that
\* section, and no other, displayed and named by this.activeSection, whatever
\* was displayed before; a request for a name with no section hides all and
\* shows none.
KnownSectionShowsOne ==
    [][ \A name \in Sections :
            showSection(name) => (Visible = {name} /\ activeSection = name)' ]_vars

\* A page load leaves the stored string as it is, arms nothing and completes.
LoadSkipsStorage ==
    PageLoad =>
        /\ storedText' = storedText
        /\ armed' = EmptyBag
        /\ startup'.threw = "none" /\ startup'.listening

\* The confirmation send of a submission whose reminder instant was ahead
\* returns: the stored string stays as it is and the deferred send of the
\* submission is armed.
AppendSkipsStorage ==
    \A job \in BagToSet(jobs) :
        ConfirmationReturns(job) /\ job.rec.reminderDateTime - job.now0 > 0 =>
            /\ storedText' = storedText
            /\ armed' = armed (+) SetToBag({[rec |-> job.rec,
                              due |-> now + (job.rec.reminderDateTime - job.now0)]})

\* C36: while the string under the scheduled-reminders key is not the JSON of
\* an array, a page load completes, arms nothing from storage and leaves the
\* string unchanged, and the append of a returning confirmation leaves the
\* string unchanged and the submission's deferred send armed.
C36_CorruptStorageCaught ==
    [][ storedText # ArrayText => (LoadSkipsStorage /\ AppendSkipsStorage) ]_vars

\* C36 as it holds: the same for every such string but the empty one, which
\* the code reads as an empty array and overwrites.
C36_NonEmptyCorruptStorageCaught ==
    [][ (storedText \in CorruptTexts /\ storedText # "")
            => (LoadSkipsStorage /\ AppendSkipsStorage) ]_vars

\* C36 witness: over a string that is no JSON, the confirmation send of a
\* submission has returned and its deferred send is armed.
C36_Witness ==
    /\ storedText = "{oops"
    /\ op \in {"emailjs", "webhook"}
    /\ ~ConfirmationPending
    /\ currentReminder # <<>>
    /\ ArmedFor(armed, RecordOf(currentReminder[1])) = 1

\* The shape of an email: no whitespace, exactly one at sign, something
\* before it, and after it a dot that is neither the first nor the last
\* character of that part.
EmailShape(str) ==
    /\ \A k \in 1..Len(str) : ~IsSpace(str[k])
    /\ Cardinality(Places(str, "@")) = 1
    /\ LET at == CHOOSE k \in Places(str, "@") : TRUE
       IN /\ at > 1
          /\ \E k \in (at + 2)..(Len(str) - 1) : str[k] = "."

\* C37: a submission whose other fields are filled in and whose trimmed email
\* is not empty is turned down for its email exactly when the trimmed email
\* has not the shape of an email; otherwise it is accepted with that email.
C37_EmailShapeCheck ==
    (op = "submit" /\ Trim(emailInput) # <<>>) =>
        /\ alerted = "email" <=> ~EmailShape(Trim(emailInput))
        /\ alerted # "email" =>
               /\ alerted = "none" /\ formView = "success"
               /\ currentReminder # <<>>
               /\ currentReminder[1].email = Trim(emailInput)

\* C37 witness: the email a@a.a, typed with a space before it, has been
\* accepted.
C37_Witness ==
    /\ op = "submit"
    /\ emailInput = <<" ", "a", "@", "a", ".", "a">>
    /\ formView = "success"
    /\ alerted = "none"

====
